---- MODULE Spec2Model ----
(***************************************************************************)
(* Model of the floathunter-scheduler ingestion pipelines:                 *)
(*   csfloat_fetcher.py, buff163_fetcher.py, whitemarket_fetcher.py.       *)
(* Prices are fixed-point hundredths of a major unit (1.50 is 150).        *)
(* An optional value is a set: {} is Python's None, {x} is the value x.    *)
(* A name is a sequence of tokens; a token stands for a substring.         *)
(***************************************************************************)
EXTENDS Integers, Sequences, FiniteSets, TLC

\* ------------------------------------------------------------------ bounds
\* raw records read by one run
MaxRecords == 3
\* rows and chunk sizes tried on chunked() alone
MaxRows == 5
MaxSize == 3
\* bytes of a source read through PrependStream, and the largest read(n)
MaxBytes == 6
MaxRead == 3
\* largest retry_count given to open_source_stream
MaxRetry == 4

\* ------------------------------------------------- configuration (env)
\* SUPABASE_UPSERT_BATCH, read twice by whitemarket_fetcher.py: as the chunk
\* size of upsert_market_rows and as the flush bound of run_whitemarket_ingest.
\* The model runs with the variable set to 2.
UPSERT_BATCH == 2
batch_size == 2

\* ------------------------------------------------------------ raw values
None == {}
Some(x) == {x}
Val(o) == CHOOSE x \in o : TRUE

\* JSON / CSV values as the parsers hand them to the aggregators
Absent == [kind |-> "absent", v |-> 0]
JNull == [kind |-> "null", v |-> 0]
\* an integer n
JInt(n) == [kind |-> "int", v |-> n]
\* a non-integer number worth h hundredths
JNum(h) == [kind |-> "float", v |-> h]
\* text that float() parses, worth h hundredths
JStr(h) == [kind |-> "str", v |-> h]
\* text of an integer n (digits only)
JDigits(n) == [kind |-> "digits", v |-> n]
\* text that neither float() nor int() parses
JBad == [kind |-> "badstr", v |-> 0]
\* the price of an object that is not a mapping but a truthy value of another
\* type (a number, a text, a list): it has no .get
JNoMap == [kind |-> "nomap", v |-> 0]

\* min() of a non-empty set of numbers
SetMin(S) == CHOOSE x \in S : \A y \in S : x <= y

\* ------------------------------------------------------------------ names
TokStatTrakTM == "StatTrak(tm) "
TokStatTrak == "StatTrak "
TokSouvenir == "Souvenir "
CONDITION_NAMES == <<"Factory New", "Minimal Wear", "Field-Tested", "Well-Worn", "Battle-Scarred">>
CondSuffix(c) == "(" \o c \o ")"
CondSuffixes == {CondSuffix(CONDITION_NAMES[i]) : i \in 1..Len(CONDITION_NAMES)}

IsMarker(tok) == tok \in {TokStatTrakTM, TokStatTrak, TokSouvenir}
NotMarker(tok) == ~IsMarker(tok)

CondOf(tok) == CHOOSE i \in 1..Len(CONDITION_NAMES) : CondSuffix(CONDITION_NAMES[i]) = tok

\* parse_market_hash_name: base name, StatTrak flag, Souvenir flag, condition
parse_market_hash_name(name) ==
  IF name = <<>> THEN [base |-> <<>>, stattrak |-> FALSE, souvenir |-> FALSE, condition |-> None]
  ELSE LET hasCond == name[Len(name)] \in CondSuffixes
           s == IF hasCond THEN SubSeq(name, 1, Len(name) - 1) ELSE name
       IN [base |-> SelectSeq(s, NotMarker),
           stattrak |-> \E i \in 1..Len(name) : name[i] \in {TokStatTrakTM, TokStatTrak},
           souvenir |-> \E i \in 1..Len(name) : name[i] = TokSouvenir,
           condition |-> IF hasCond THEN Some(CONDITION_NAMES[CondOf(name[Len(name)])]) ELSE None]

NonEmptyPart(p) == p # <<>>

RECURSIVE JoinPipe(_)
\* "|".join(parts), each part a token sequence
JoinPipe(parts) ==
  IF parts = <<>> THEN <<>>
  ELSE IF Len(parts) = 1 THEN parts[1]
  ELSE parts[1] \o <<"|">> \o JoinPipe(Tail(parts))

\* build_item_key: the non-empty parts joined with "|"
build_item_key(name_base, stattrak, souvenir, condition, phase) ==
  JoinPipe(SelectSeq(
    << name_base,
       IF stattrak THEN <<"StatTrak">> ELSE <<>>,
       IF souvenir THEN <<"Souvenir">> ELSE <<>>,
       IF condition # None THEN <<Val(condition)>> ELSE <<>>,
       IF phase # None THEN <<Val(phase)>> ELSE <<>> >>, NonEmptyPart))

\* the key csfloat_fetcher.py and whitemarket_fetcher.py give a name: no phase
ItemKey(name) ==
  LET p == parse_market_hash_name(name)
  IN build_item_key(p.base, p.stattrak, p.souvenir, p.condition, None)

PHASE_TOKENS ==
  <<"Ruby", "Sapphire", "Black Pearl", "Emerald", "Phase 1", "Phase 2", "Phase 3", "Phase 4">>

\* detect_phase: the first phase token the name contains
detect_phase(name) ==
  LET found == {i \in 1..Len(PHASE_TOKENS) : \E j \in 1..Len(name) : name[j] = PHASE_TOKENS[i]}
  IN IF found = {} THEN None ELSE Some(PHASE_TOKENS[SetMin(found)])

\* the key buff163_fetcher.py gives a name: the phase is part of it
BuffItemKey(name) ==
  LET p == parse_market_hash_name(name)
  IN build_item_key(p.base, p.stattrak, p.souvenir, p.condition, detect_phase(name))

\* --------------------------------------------------- per-record conversions
\* csfloat_fetcher.py 134-139: qty = it.get("qty") or 0; int(qty), 0 when it raises
CsfloatQty(q) ==
  CASE q.kind = "int" -> q.v
    [] q.kind = "digits" -> q.v
    [] q.kind = "float" -> q.v \div 100
    [] OTHER -> 0

\* csfloat_fetcher.py 140-147: an int is cents, anything else goes through float()
CsfloatPrice(p) ==
  CASE p.kind = "int" -> Some(p.v)
    [] p.kind = "float" -> Some(p.v)
    [] p.kind = "str" -> Some(p.v)
    [] p.kind = "digits" -> Some(100 * p.v)
    [] OTHER -> None

\* buff163_fetcher.py 134-141: float(price) if price is not None, None when it raises
BuffPrice(p) ==
  CASE p.kind = "int" -> Some(100 * p.v)
    [] p.kind = "float" -> Some(p.v)
    [] p.kind = "str" -> Some(p.v)
    [] p.kind = "digits" -> Some(100 * p.v)
    [] OTHER -> None

\* to_usd without the magnitude heuristic
to_usd_no_magnitude(val, cents_field) ==
  CASE val.kind \in {"badstr", "absent", "null"} -> None
    [] val.kind \in {"int", "digits"} ->
         IF cents_field THEN Some(val.v) ELSE Some(100 * val.v)
    [] OTHER ->
         IF cents_field THEN Some(val.v \div 100) ELSE Some(val.v)

\* to_usd / _to_usd: text is parsed to a float first; a *_cents field divides by
\* 100; an int >= 1000 divides by 100; anything else is float(v)
to_usd(val, cents_field) ==
  CASE val.kind = "badstr" -> None
    [] val.kind \in {"absent", "null"} -> None
    [] val.kind = "int" ->
         IF cents_field THEN Some(val.v)
         ELSE IF val.v >= 1000 THEN Some(val.v) ELSE Some(100 * val.v)
    [] val.kind = "digits" ->
         IF cents_field THEN Some(val.v) ELSE Some(100 * val.v)
    [] OTHER ->
         IF cents_field THEN Some(val.v \div 100) ELSE Some(val.v)

\* ------------------------------------------------------------------ state
VARIABLES
  src,              \* the pipeline that runs: "csfloat", "buff163", "aggwm", "wm_csv", "wm_json"
  pc,               \* "ingest" while records are read, "done" after the return or raise
  aggregated,       \* the aggregation dict, as its rows in insertion order
  now,              \* the wall clock, datetime.now(timezone.utc)
  run_now,          \* `now` as aggregate_* reads it once before its loop
  nrec,             \* raw records read so far
  total_processed,  \* run_whitemarket_ingest's counter
  store,            \* the persisted table: the rows upserted, keyed by item_key
  calls,            \* every upsert call of the run, in order
  outcome,          \* "running", "returned" or "raised"
  ret,              \* the count returned to the caller
  window,           \* the raw records merged since the table was last empty
  history,          \* the raw records merged during the whole run
  last,             \* the raw record read last (<<>> before the first)
  rowsIn,           \* chunked() alone: its input list
  sizeIn,           \* chunked() alone: its size argument
  chunksOut,        \* chunked() alone: the chunks yielded
  upsertCalls,      \* chunked() alone: the upsert calls of upsert_market_rows
  sData,            \* PrependStream alone: the bytes of the source, head first
  sBuf,             \* PrependStream alone: what is left in self.buf
  sBase,            \* PrependStream alone: what is left in self.base
  sOut,             \* PrependStream alone: the bytes returned so far, concatenated
  sN,               \* PrependStream alone: the argument of the last read (0: none yet)
  sRet,             \* PrependStream alone: what the last read returned
  oRetry,           \* open_source_stream alone: its retry_count argument
  oLog,             \* open_source_stream alone: how each attempt so far ended
  oWaits,           \* open_source_stream alone: the time.sleep() calls so far, in seconds
  oResult,          \* open_source_stream alone: "trying", "stream" (returned) or "raised"
  kFetcher,         \* key derivation alone: the fetcher whose functions run
  kNames,           \* key derivation alone: two raw names
  kIds,             \* key derivation alone: their identities (<<>> before parsing)
  kAgain,           \* key derivation alone: parse_market_hash_name of their base names
  kKeys,            \* key derivation alone: their keys (<<>> before build_item_key)
  fPayload,         \* fetching: what the source serves, the same at every request
  fFaults,          \* fetching: the requests that have failed or aborted so far
  fTried,           \* fetching: the extraction strategies started, in order
  fConn,            \* fetching: "closed", or how the open stream will end: "ok", "abort"
  fPos,             \* fetching: elements the current strategy has read from its stream
  fGot,             \* fetching: got_any of the current strategy
  fAttempt,         \* fetching: `attempt` of the open_source_stream call in progress
  fOpens,           \* fetching: every request made, with its strategy and how it ended
  fYield,           \* fetching: every record yielded, with its strategy
  fAborted,         \* fetching: the strategies whose stream aborted while it was read
  pProduct,         \* price probing alone: the raw value of each candidate field
  pDone,            \* price probing alone: the functions have been applied
  pRun,             \* price probing alone: what _normalize_price returned
  pAgg,             \* price probing alone: line_price of aggregate_whitemarket
  pUsd,             \* price probing alone: to_usd of each candidate field
  args,             \* scheduler: the parsed command line, [once, clean]
  mainPc,           \* scheduler: the statement of main() that is next or in progress
  running,          \* scheduler: the call at mainPc has started and has not ended
  iteration,        \* scheduler: iterations of the loop of main() started so far
  steps,            \* scheduler: the calls of the current iteration, started and ended
  sleeps,           \* scheduler: time.sleep() calls that have returned
  table             \* scheduler: what the market table holds of each source

streamVars == <<sData, sBuf, sBase, sOut, sN, sRet>>
openVars == <<oRetry, oLog, oWaits, oResult>>
keyVars == <<kFetcher, kNames, kIds, kAgain, kKeys>>
fetchVars == <<fPayload, fFaults, fTried, fConn, fPos, fGot, fAttempt, fOpens, fYield,
               fAborted>>
priceVars == <<pProduct, pDone, pRun, pAgg, pUsd>>
mainVars == <<args, mainPc, running, iteration, steps, sleeps, table>>
sideVars == <<streamVars, openVars, keyVars, fetchVars, priceVars, mainVars>>

vars == <<src, pc, aggregated, now, run_now, nrec, total_processed, store, calls,
          outcome, ret, window, history, last, rowsIn, sizeIn, chunksOut, upsertCalls,
          sideVars>>
pipeVars == <<src, pc, aggregated, now, run_now, nrec, total_processed, store, calls,
              outcome, ret, window, history, last>>
chunkVars == <<rowsIn, sizeIn, chunksOut, upsertCalls>>
otherVars == <<chunkVars, sideVars>>

\* ------------------------------------------------------------ the dict
Keys(acc) == {acc[i].item_key : i \in 1..Len(acc)}
HasKey(acc, k) == \E i \in 1..Len(acc) : acc[i].item_key = k
IndexOf(acc, k) == CHOOSE i \in 1..Len(acc) : acc[i].item_key = k
Get(acc, k) == acc[IndexOf(acc, k)]

\* ------------------------------------------------------------ merge rules
\* MergeAsk with the comparison dropped: the latest non-null price wins
MergeAsk_latest(cur, new) ==
  IF new # None THEN new ELSE cur

\* MergeAsk with the None test dropped: a null price replaces the stored one
MergeAsk_null_overwrites(cur, new) ==
  IF new = None \/ cur = None \/ Val(new) < Val(cur) THEN new ELSE cur

\* csfloat 166-168, buff163 162-164, aggregate_whitemarket 549-552
MergeAsk(cur, new) ==
  IF new # None /\ (cur = None \/ Val(new) < Val(cur)) THEN new ELSE cur

\* MergeBid with the comparison of MergeAsk copied: the least bid is kept
MergeBid_least(cur, new) ==
  IF new # None /\ (cur = None \/ Val(new) < Val(cur)) THEN new ELSE cur

\* buff163 165-167
MergeBid(cur, new) ==
  IF new # None /\ (cur = None \/ Val(new) > Val(cur)) THEN new ELSE cur

\* run_whitemarket_ingest 665-670: cur = float(stored); the new price is a number
MergeWmPrice(cur, price) ==
  IF cur = None \/ price < Val(cur) THEN Some(price) ELSE cur

\* ------------------------------------------------------- aggregate_csfloat
\* one iteration of the loop of aggregate_csfloat (132-168)
CsfloatStep(acc, it, ts) ==
  LET qty == CsfloatQty(it.qty)
      price == CsfloatPrice(it.price)
      item_key == ItemKey(it.name)
  IN IF ~HasKey(acc, item_key)
     THEN Append(acc, [item_key |-> item_key, price |-> price, bid |-> None,
                       qty |-> qty, fetched_at |-> ts])
     ELSE LET i == IndexOf(acc, item_key)
          IN [acc EXCEPT ![i].qty = @ + qty, ![i].price = MergeAsk(@, price)]

\* ------------------------------------------------------- aggregate_buff163
\* one iteration of the loop of aggregate_buff163 (129-167)
Buff163Step(acc, e, ts) ==
  LET p_start == BuffPrice(e.price)
      p_buy == BuffPrice(e.bid)
      item_key == BuffItemKey(e.name)
  IN IF ~HasKey(acc, item_key)
     THEN Append(acc, [item_key |-> item_key, price |-> p_start, bid |-> p_buy,
                       qty |-> 0, fetched_at |-> ts])
     ELSE LET i == IndexOf(acc, item_key)
          IN [acc EXCEPT ![i].price = MergeAsk(@, p_start), ![i].bid = MergeBid(@, p_buy)]

\* ------------------------------------------------------ price candidates
\* 615: the candidate fields in the order _normalize_price probes them
RunPriceFields == <<"price_usd", "price_cents", "price", "amount", "value">>
\* 524: the candidate fields in the order aggregate_whitemarket probes them
AggPriceFields == <<"price", "price_usd", "price_cents", "amount", "value">>
CandidateFields == {RunPriceFields[i] : i \in 1..Len(RunPriceFields)}

\* field_name.endswith("_cents")
EndsInCents(f) == f = "price_cents"

\* 525-526, 616-617: `if f in p and p[f] is not None: to_usd(p[f], f)`, for a
\* product c given as the raw value of each candidate field
Candidate(c, f) ==
  IF c[f].kind \in {"absent", "null"} THEN None ELSE to_usd(c[f], EndsInCents(f))

\* 612-622 _normalize_price: min() of the candidates that are valid and > 0
NormalizePrice(c) ==
  LET candidates == {x \in UNION {Candidate(c, f) : f \in CandidateFields} : x > 0}
  IN IF candidates = {} THEN None ELSE Some(SetMin(candidates))

\* 523-529: the first field, in aggregate_whitemarket's order, whose to_usd
\* is not None
ProbePrice(c) ==
  LET hits == {i \in 1..Len(AggPriceFields) : Candidate(c, AggPriceFields[i]) # None}
  IN IF hits = {} THEN None ELSE Candidate(c, AggPriceFields[SetMin(hits)])

\* the candidate fields of a raw record of the pipelines, which carries two
CandidatesOf(p) ==
  [f \in CandidateFields |->
     IF f = "price" THEN p.price ELSE IF f = "price_cents" THEN p.price_cents ELSE Absent]

\* --------------------------------------------------- aggregate_whitemarket
\* 524-529: the first candidate field whose to_usd is not None
LinePrice(p) == ProbePrice(CandidatesOf(p))

\* one iteration of the loop of aggregate_whitemarket (515-552)
AggWmStep(acc, p, ts) ==
  LET line_price == LinePrice(p)
      item_key == ItemKey(p.name)
  IN IF ~HasKey(acc, item_key)
     THEN Append(acc, [item_key |-> item_key, price |-> line_price, bid |-> None,
                       qty |-> 1, fetched_at |-> ts])
     ELSE LET i == IndexOf(acc, item_key)
          IN [acc EXCEPT ![i].qty = @ + 1, ![i].price = MergeAsk(@, line_price)]

\* ------------------------------------------------ chunked, upsert_market_rows
RECURSIVE ChunkLoop(_, _, _, _)
\* the generator chunked(iterable, size): buf fills up and is yielded when full
ChunkLoop(rest, buf, size, out) ==
  IF rest = <<>> THEN (IF buf # <<>> THEN Append(out, buf) ELSE out)
  ELSE LET buf2 == Append(buf, Head(rest))
       IN IF Len(buf2) >= size
          THEN ChunkLoop(Tail(rest), <<>>, size, Append(out, buf2))
          ELSE ChunkLoop(Tail(rest), buf2, size, out)

\* chunked without the final `if buf: yield buf`
chunked_no_tail(iterable, size) ==
  LET out == ChunkLoop(iterable, <<>>, size, <<>>)
  IN IF out # <<>> /\ Len(out[Len(out)]) < size THEN SubSeq(out, 1, Len(out) - 1) ELSE out

chunked(iterable, size) == ChunkLoop(iterable, <<>>, size, <<>>)

\* upsert_market_rows(sb, rows) where the failAt-th upsert call raises (0: none
\* does): the chunks it submits, the failing one included and last
Submitted(chunks, failAt) ==
  IF failAt = 0 THEN chunks ELSE SubSeq(chunks, 1, failAt)

\* the chunks whose upsert call returned
Applied(chunks, failAt) ==
  IF failAt = 0 THEN chunks ELSE SubSeq(chunks, 1, failAt - 1)

\* upsert(batch, on_conflict="item_key"): insert, or replace the row of the key
UpsertChunk(st, batch) ==
  [k \in DOMAIN st \cup Keys(batch) |-> IF HasKey(batch, k) THEN Get(batch, k) ELSE st[k]]

RECURSIVE UpsertAll(_, _)
UpsertAll(st, chunks) ==
  IF chunks = <<>> THEN st ELSE UpsertAll(UpsertChunk(st, Head(chunks)), Tail(chunks))

\* the log entries of one upsert_market_rows call
CallLog(chunks, failAt, part) ==
  [i \in 1..Len(Submitted(chunks, failAt)) |->
     [rows |-> chunks[i], ok |-> (i # failAt), part |-> part]]

\* ---------------------------------------------------- run_whitemarket_ingest
\* CsvPrice with a text that does not parse taken as 0.0
CsvPrice_bad_is_zero(p) ==
  CASE p.kind \in {"str", "float"} -> Some(p.v)
    [] p.kind \in {"digits", "int"} -> Some(100 * p.v)
    [] p.kind = "badstr" -> Some(0)
    [] OTHER -> None

\* 632-637: float(str(price_str).replace(",", ".").strip()), None when it raises
CsvPrice(p) ==
  CASE p.kind = "str" -> Some(p.v)
    [] p.kind = "digits" -> Some(100 * p.v)
    [] p.kind = "int" -> Some(100 * p.v)
    [] p.kind = "float" -> Some(p.v)
    [] OTHER -> None

\* 638-641: int(qty_str) unless None or blank, 0 when it raises
CsvQty(q) ==
  CASE q.kind = "digits" -> q.v
    [] q.kind = "int" -> q.v
    [] q.kind = "float" -> q.v \div 100
    [] OTHER -> 0

\* 612-622 _normalize_price: the least of the candidates that are valid and > 0
normalize_price(p) == NormalizePrice(CandidatesOf(p))

\* 651: int(product.get("qty", 1) or 1); the empty set when int() raises
JsonQty(q) ==
  CASE q.kind \in {"absent", "null"} -> Some(1)
    [] q.kind = "int" -> Some(IF q.v = 0 THEN 1 ELSE q.v)
    [] q.kind = "digits" -> Some(q.v)
    [] q.kind = "float" -> Some(IF q.v = 0 THEN 1 ELSE q.v \div 100)
    [] OTHER -> None

\* 630-660: the record is skipped (continue) or gives <<item_key, price, qty>>
WmParsed(prefer_csv, product) ==
  LET price == IF prefer_csv THEN CsvPrice(product.price) ELSE normalize_price(product)
      qty == IF prefer_csv THEN Some(CsvQty(product.qty)) ELSE JsonQty(product.qty)
      nm == parse_market_hash_name(product.name)
  IN IF qty = None \/ product.name = <<>> \/ price = None \/ nm.base = <<>>
     THEN None
     ELSE Some([item_key |-> ItemKey(product.name), price |-> Val(price), qty |-> Val(qty)])

\* 673-682: the timestamp a new record gets
WmFetchedAt(clock, start) == clock

\* WmMerge with the quantity assigned instead of added
WmMerge_qty_assigned(acc, r, clock, start) ==
  IF HasKey(acc, r.item_key)
  THEN LET i == IndexOf(acc, r.item_key)
       IN [acc EXCEPT ![i].price = MergeWmPrice(@, r.price), ![i].qty = r.qty]
  ELSE Append(acc, [item_key |-> r.item_key, price |-> Some(r.price), bid |-> None,
                    qty |-> r.qty, fetched_at |-> WmFetchedAt(clock, start)])

\* 663-682: merge into the dict
WmMerge(acc, r, clock, start) ==
  IF HasKey(acc, r.item_key)
  THEN LET i == IndexOf(acc, r.item_key)
       IN [acc EXCEPT ![i].price = MergeWmPrice(@, r.price), ![i].qty = @ + r.qty]
  ELSE Append(acc, [item_key |-> r.item_key, price |-> Some(r.price), bid |-> None,
                    qty |-> r.qty, fetched_at |-> WmFetchedAt(clock, start)])

\* AfterFlush without aggregated.clear()
AfterFlush_not_cleared(acc) == acc

\* 707: what is left of the dict after a flush whose upsert_market_rows returned
AfterFlush(acc) == <<>>

\* 720-722: what is left of the dict after a flush whose upsert_market_rows raised:
\* the handler of the record loop catches it and goes on to the next record
AfterFailedFlush(acc) == acc

\* ----------------------------------------------------------------- inputs
NameA == <<"AK-47 | Redline">>
NameB == <<TokStatTrakTM, "AK-47 | Redline", "(Field-Tested)">>
NameC == <<TokSouvenir, "AWP | Asiimov">>
NameD == <<"AK-47 | Redline", "Phase 2">>
NameE == <<>>

Raw(name, price, price_cents, qty, bid) ==
  [name |-> name, price |-> price, price_cents |-> price_cents, qty |-> qty, bid |-> bid]

\* price-list entries of csfloat: market_hash_name, min_price, qty
CsfloatItems ==
  {Raw(NameA, p, Absent, JInt(2), Absent) : p \in {JNull, JBad, JInt(250), JNum(100)}}
  \cup {Raw(NameA, JNum(100), Absent, q, Absent) : q \in {Absent, JBad}}
  \cup {Raw(NameB, p, Absent, JInt(2), Absent) : p \in {JNull, JInt(250)}}
  \cup {Raw(NameE, JNum(100), Absent, JInt(2), Absent)}

\* entries of the buff163 mapping: name, starting_at.price, highest_order.price
Buff163Pairs ==
  {Raw(NameA, JNum(250), Absent, Absent, JNum(90)),
   Raw(NameA, JNum(100), Absent, Absent, JNull),
   Raw(NameA, JNull, Absent, Absent, JNum(200)),
   Raw(NameA, JNull, Absent, Absent, JNull),
   Raw(NameA, JBad, Absent, Absent, JBad),
   Raw(NameB, JNum(100), Absent, Absent, JNum(90)),
   Raw(NameB, JNull, Absent, Absent, JNull),
   Raw(NameD, JNum(100), Absent, Absent, JNum(90)),
   Raw(NameE, JNull, Absent, Absent, JNum(200)),
   Raw(NameA, JNoMap, Absent, Absent, JNum(90))}

\* products of the whitemarket JSON export, as aggregate_whitemarket reads them
AggWmProducts ==
  {Raw(NameA, p, c, Absent, Absent) : p \in {JBad, JNum(250)}, c \in {Absent, JInt(150)}}
  \cup {Raw(NameA, p, Absent, Absent, Absent) : p \in {JNum(100), JInt(1500)}}
  \cup {Raw(NameB, p, Absent, Absent, Absent) : p \in {JBad, JNum(100)}}
  \cup {Raw(NameE, JNum(100), Absent, Absent, Absent)}

\* rows of the whitemarket prices CSV: market_hash_name, price, market_product_count
CsvRows ==
  {Raw(NameA, p, Absent, JDigits(2), Absent) : p \in {JStr(100), JStr(250), JBad}}
  \cup {Raw(NameA, JStr(100), Absent, q, Absent) : q \in {Absent, JBad}}
  \cup {Raw(NameB, JStr(100), Absent, JDigits(2), Absent),
        Raw(NameC, JStr(250), Absent, JDigits(2), Absent),
        Raw(NameE, JStr(100), Absent, JDigits(2), Absent)}

\* products of the whitemarket JSON export, as run_whitemarket_ingest reads them
JsonProducts ==
  {Raw(NameA, p, Absent, JInt(2), Absent) : p \in {JNum(100), JNum(250), Absent}}
  \cup {Raw(NameA, JNum(100), Absent, q, Absent) : q \in {Absent, JNull, JInt(0), JBad}}
  \cup {Raw(NameB, JNum(100), Absent, JInt(2), Absent),
        Raw(NameC, JNum(250), Absent, JInt(2), Absent),
        Raw(NameE, JNum(100), Absent, JInt(2), Absent)}

\* the instants datetime.now() can give during one run
ClockReadings == {0, 1}

Sources == {"csfloat", "buff163", "aggwm", "wm_csv", "wm_json"}
WmSources == {"wm_csv", "wm_json"}

\* ------------------------------------------------------------------- Init
\* PrependStream is not in use
StreamIdle ==
  /\ sData = <<>>
  /\ sBuf = <<>>
  /\ sBase = <<>>
  /\ sOut = <<>>
  /\ sN = 0
  /\ sRet = <<>>

\* open_source_stream is not in use
OpenIdle ==
  /\ oRetry = 0
  /\ oLog = <<>>
  /\ oWaits = <<>>
  /\ oResult = "trying"

\* no key is being derived
KeyIdle ==
  /\ kFetcher = "none"
  /\ kNames = <<>>
  /\ kIds = <<>>
  /\ kAgain = <<>>
  /\ kKeys = <<>>

\* nothing is being fetched: the records come as inputs
NoPayload == [shape |-> "none", elems |-> <<>>, cut |-> FALSE, gzip |-> FALSE, perline |-> FALSE]

FetchIdle ==
  /\ fPayload = NoPayload
  /\ fFaults = 0
  /\ fTried = <<>>
  /\ fConn = "closed"
  /\ fPos = 0
  /\ fGot = FALSE
  /\ fAttempt = 0
  /\ fOpens = <<>>
  /\ fYield = <<>>
  /\ fAborted = {}

\* no price is being probed
PriceIdle ==
  /\ pProduct = [f \in CandidateFields |-> Absent]
  /\ pDone = FALSE
  /\ pRun = None
  /\ pAgg = None
  /\ pUsd = [f \in CandidateFields |-> None]

\* the scheduler does not run
MainIdle ==
  /\ args = [once |-> FALSE, clean |-> FALSE]
  /\ mainPc = "idle"
  /\ running = FALSE
  /\ iteration = 0
  /\ steps = <<>>
  /\ sleeps = 0
  /\ table = <<>>

SideIdle == StreamIdle /\ OpenIdle /\ KeyIdle /\ FetchIdle /\ PriceIdle /\ MainIdle

\* no pipeline runs and chunked() is not in use: the state of a specification
\* that looks at one function alone, named what
PipeIdle(what) ==
  /\ src = what
  /\ pc = "idle"
  /\ aggregated = <<>>
  /\ now = 0
  /\ run_now = 0
  /\ nrec = 0
  /\ total_processed = 0
  /\ store = <<>>
  /\ calls = <<>>
  /\ outcome = "running"
  /\ ret = 0
  /\ window = <<>>
  /\ history = <<>>
  /\ last = <<>>

ChunkIdle ==
  /\ rowsIn = <<>>
  /\ sizeIn = 1
  /\ chunksOut = <<>>
  /\ upsertCalls = <<>>

Init ==
  /\ src \in Sources
  /\ pc = "ingest"
  /\ aggregated = <<>>
  /\ now = 0
  /\ run_now = 0
  /\ nrec = 0
  /\ total_processed = 0
  /\ store = <<>>
  /\ calls = <<>>
  /\ outcome = "running"
  /\ ret = 0
  /\ window = <<>>
  /\ history = <<>>
  /\ last = <<>>
  /\ rowsIn = <<>>
  /\ sizeIn = 1
  /\ chunksOut = <<>>
  /\ upsertCalls = <<>>
  /\ SideIdle

\* ---------------------------------------------------------------- actions
\* one iteration of the loop of aggregate_csfloat, aggregate_buff163 or
\* aggregate_whitemarket: the record r is read and the dict becomes acc2
Aggregate(r, acc2) ==
  /\ pc = "ingest"
  /\ aggregated' = acc2
  /\ nrec' = nrec + 1
  /\ window' = Append(window, r)
  /\ history' = Append(history, r)
  /\ last' = r
  /\ UNCHANGED <<src, pc, now, run_now, total_processed, store, calls, outcome, ret>>

AggregateCsfloat ==
  /\ src = "csfloat"
  /\ nrec < MaxRecords
  /\ \E it \in CsfloatItems : Aggregate(it, CsfloatStep(aggregated, it, run_now))
  /\ UNCHANGED otherVars

\* buff163_fetcher.py 130-133: start_obj.get("price") and buy_obj.get("price")
\* are outside any try: they raise AttributeError on a value that is not a mapping
BuffRaises(e) == e.price.kind = "nomap" \/ e.bid.kind = "nomap"

\* an iteration of an aggregator's loop that raises on the record r: the
\* exception leaves the aggregator, whose dict is lost with it, and the run
\* that called it
AggregateRaises(r) ==
  /\ pc = "ingest"
  /\ nrec' = nrec + 1
  /\ last' = r
  /\ aggregated' = <<>>
  /\ window' = <<>>
  /\ pc' = "done"
  /\ outcome' = "raised"
  /\ UNCHANGED <<src, now, run_now, total_processed, store, calls, ret, history>>

AggregateBuff163 ==
  /\ src = "buff163"
  /\ nrec < MaxRecords
  /\ \E e \in Buff163Pairs :
       IF BuffRaises(e)
       THEN AggregateRaises(e)
       ELSE Aggregate(e, Buff163Step(aggregated, e, run_now))
  /\ UNCHANGED otherVars

AggregateWhitemarket ==
  /\ src = "aggwm"
  /\ nrec < MaxRecords
  /\ \E p \in AggWmProducts : Aggregate(p, AggWmStep(aggregated, p, run_now))
  /\ UNCHANGED otherVars

\* aggregate_whitemarket returns its dict (no run calls it)
AggregateWhitemarketReturn ==
  /\ src = "aggwm"
  /\ pc = "ingest"
  /\ pc' = "done"
  /\ outcome' = "returned"
  /\ UNCHANGED <<src, aggregated, now, run_now, nrec, total_processed, store, calls,
                 ret, window, history, last>>
  /\ UNCHANGED otherVars

\* run_csfloat_ingest 181-195 and run_buff163_ingest 180-194, once the stream has
\* ended: the rows are upserted and counted; an upsert that raises is not caught
RunReturn(failAt) ==
  LET rows == aggregated
      chunks == chunked(rows, UPSERT_BATCH)
  IN /\ pc = "ingest"
     /\ failAt \in 0..Len(chunks)
     /\ pc' = "done"
     /\ store' = UpsertAll(store, Applied(chunks, failAt))
     /\ calls' = calls \o CallLog(chunks, failAt, window)
     /\ outcome' = IF failAt = 0 THEN "returned" ELSE "raised"
     /\ ret' = IF failAt = 0 THEN Len(rows) ELSE ret
     /\ UNCHANGED <<src, aggregated, now, run_now, nrec, total_processed, window, history, last>>

RunCsfloatIngest ==
  /\ src = "csfloat"
  /\ \E failAt \in 0..MaxRecords : RunReturn(failAt)
  /\ UNCHANGED otherVars

RunBuff163Ingest ==
  /\ src = "buff163"
  /\ \E failAt \in 0..MaxRecords : RunReturn(failAt)
  /\ UNCHANGED otherVars

\* run_whitemarket_ingest 624-722: one iteration of the record loop, the flush
\* at the bound included. t is what datetime.now() gives if the record is new
\* (681); failAt is the upsert call of the flush that raises (0: none).
WmRecord(product, t, failAt) ==
  LET parsed == WmParsed(src = "wm_csv", product)
      r == Val(parsed)
      isNew == ~HasKey(aggregated, r.item_key)
      acc2 == WmMerge(aggregated, r, t, run_now)
      rows == acc2
      chunks == chunked(rows, UPSERT_BATCH)
      part == Append(window, product)
  IN /\ pc = "ingest"
     /\ nrec' = nrec + 1
     /\ last' = product
     /\ IF parsed = None
        THEN /\ failAt = 0
             /\ t = now
             /\ UNCHANGED <<aggregated, now, total_processed, store, calls, window, history>>
        ELSE /\ history' = Append(history, product)
             /\ t >= now
             /\ isNew \/ t = now
             /\ now' = t
             /\ IF Len(acc2) >= batch_size
                THEN /\ failAt \in 0..Len(chunks)
                     /\ store' = UpsertAll(store, Applied(chunks, failAt))
                     /\ calls' = calls \o CallLog(chunks, failAt, part)
                     /\ IF failAt = 0
                        THEN /\ total_processed' = total_processed + Len(rows)
                             /\ aggregated' = AfterFlush(acc2)
                             /\ window' = <<>>
                        ELSE /\ total_processed' = total_processed
                             /\ aggregated' = AfterFailedFlush(acc2)
                             /\ window' = part
                ELSE /\ failAt = 0
                     /\ aggregated' = acc2
                     /\ window' = part
                     /\ UNCHANGED <<total_processed, store, calls>>
     /\ UNCHANGED <<src, pc, run_now, outcome, ret>>

RunWhitemarketRecord ==
  /\ src \in WmSources
  /\ nrec < MaxRecords
  /\ \E product \in (IF src = "wm_csv" THEN CsvRows ELSE JsonProducts) :
       \E t \in ClockReadings : \E failAt \in 0..MaxRecords : WmRecord(product, t, failAt)
  /\ UNCHANGED otherVars

\* run_whitemarket_ingest 724-748: the stream has ended; the rest of the dict is
\* flushed and the counter returned, also when the upsert raises (746-748)
\* WmReturn without the flush of the remaining table
WmReturn_no_final_flush(failAt) ==
  /\ pc = "ingest"
  /\ failAt = 0
  /\ ret' = total_processed
  /\ pc' = "done"
  /\ outcome' = "returned"
  /\ UNCHANGED <<src, aggregated, now, run_now, nrec, total_processed, store, calls,
                 window, history, last>>

WmReturn(failAt) ==
  LET rows == aggregated
      chunks == chunked(rows, UPSERT_BATCH)
  IN /\ pc = "ingest"
     /\ failAt \in 0..Len(chunks)
     /\ store' = UpsertAll(store, Applied(chunks, failAt))
     /\ calls' = calls \o CallLog(chunks, failAt, window)
     /\ total_processed' = IF failAt = 0 THEN total_processed + Len(rows)
                           ELSE total_processed
     /\ ret' = total_processed'
     /\ pc' = "done"
     /\ outcome' = "returned"
     /\ UNCHANGED <<src, aggregated, now, run_now, nrec, window, history, last>>

RunWhitemarketReturn ==
  /\ src \in WmSources
  /\ \E failAt \in 0..MaxRecords : WmReturn(failAt)
  /\ UNCHANGED otherVars

Next ==
  \/ AggregateCsfloat
  \/ AggregateBuff163
  \/ AggregateWhitemarket
  \/ AggregateWhitemarketReturn
  \/ RunCsfloatIngest
  \/ RunBuff163Ingest
  \/ RunWhitemarketRecord
  \/ RunWhitemarketReturn

Spec == Init /\ [][Next]_vars

\* ------------------------------------------- chunked and upsert_market_rows alone
RowIds == {"a", "b"}
RowLists == UNION {[1..n -> RowIds] : n \in 0..MaxRows}

InitChunk ==
  /\ src = "chunked"
  /\ pc = "call"
  /\ aggregated = <<>>
  /\ now = 0
  /\ run_now = 0
  /\ nrec = 0
  /\ total_processed = 0
  /\ store = <<>>
  /\ calls = <<>>
  /\ outcome = "running"
  /\ ret = 0
  /\ window = <<>>
  /\ history = <<>>
  /\ last = <<>>
  /\ rowsIn \in RowLists
  /\ sizeIn \in 1..MaxSize
  /\ chunksOut = <<>>
  /\ upsertCalls = <<>>
  /\ SideIdle

\* list(chunked(rows, size))
CallChunked ==
  /\ pc = "call"
  /\ chunksOut' = chunked(rowsIn, sizeIn)
  /\ pc' = "chunked"
  /\ UNCHANGED <<rowsIn, sizeIn, upsertCalls>>
  /\ UNCHANGED <<src, aggregated, now, run_now, nrec, total_processed, store, calls,
                 outcome, ret, window, history, last>>
  /\ UNCHANGED sideVars

\* upsert_market_rows(sb, rows) with UPSERT_BATCH = size: one upsert per chunk,
\* until one raises
CallUpsertMarketRows ==
  /\ pc = "chunked"
  /\ \E failAt \in 0..Len(chunked(rowsIn, sizeIn)) :
       /\ upsertCalls' = CallLog(chunked(rowsIn, sizeIn), failAt, <<>>)
       /\ outcome' = IF failAt = 0 THEN "returned" ELSE "raised"
  /\ pc' = "upserted"
  /\ UNCHANGED <<rowsIn, sizeIn, chunksOut>>
  /\ UNCHANGED <<src, aggregated, now, run_now, nrec, total_processed, store, calls,
                 ret, window, history, last>>
  /\ UNCHANGED sideVars

NextChunk ==
  \/ CallChunked
  \/ CallUpsertMarketRows

SpecChunk == InitChunk /\ [][NextChunk]_vars

\* ------------------------------------------------------------- properties
AggSources == {"csfloat", "buff163", "aggwm"}

RecKey(r) == IF src = "buff163" THEN BuffItemKey(r.name) ELSE ItemKey(r.name)

\* the ask price a raw record carries, as its source converts it
RecAsk(s, r) ==
  CASE s = "csfloat" -> CsfloatPrice(r.price)
    [] s = "buff163" -> BuffPrice(r.price)
    [] s = "aggwm" -> LinePrice(r)
    [] s = "wm_csv" -> CsvPrice(r.price)
    [] s = "wm_json" -> normalize_price(r)

\* the bid price a raw record carries (buff163 only)
RecBid(s, r) == IF s = "buff163" THEN BuffPrice(r.bid) ELSE None

\* one loop iteration of the aggregator of source s
StepOf(s, acc, r) ==
  CASE s = "csfloat" -> CsfloatStep(acc, r, 0)
    [] s = "buff163" -> Buff163Step(acc, r, 0)
    [] s = "aggwm" -> AggWmStep(acc, r, 0)
    [] OTHER -> WmMerge(acc, Val(WmParsed(s = "wm_csv", r)), 0, 0)

RECURSIVE Fold(_, _, _)
\* the aggregator of source s run over the records recs, from the table acc
Fold(s, recs, acc) ==
  IF recs = <<>> THEN acc ELSE Fold(s, Tail(recs), StepOf(s, acc, Head(recs)))

\* a table as the claim compares it: per key the ask, the bid and the quantity
TableView(acc) ==
  {[item_key |-> acc[i].item_key, price |-> acc[i].price, bid |-> acc[i].bid,
    qty |-> acc[i].qty] : i \in 1..Len(acc)}

Permuted(recs, f) == [i \in 1..Len(recs) |-> recs[f[i]]]

WithKey(recs, k) == {i \in 1..Len(recs) : RecKey(recs[i]) = k}

SetMax(S) == CHOOSE x \in S : \A y \in S : x >= y
MinOpt(S) == IF S = {} THEN None ELSE Some(SetMin(S))
MaxOpt(S) == IF S = {} THEN None ELSE Some(SetMax(S))

RECURSIVE SumSeq(_)
\* the sum of a sequence of numbers
SumSeq(nums) == IF nums = <<>> THEN 0 ELSE Head(nums) + SumSeq(Tail(nums))

C3_PresentPriceKept ==
  [][Len(aggregated') >= Len(aggregated) =>
       \A i \in 1..Len(aggregated) :
         /\ aggregated[i].price # None =>
              /\ aggregated'[i].price # None
              /\ (nrec' = nrec + 1 /\ RecKey(last') = aggregated[i].item_key
                    /\ RecAsk(src, last') = None)
                   => aggregated'[i].price = aggregated[i].price
         /\ aggregated[i].bid # None =>
              /\ aggregated'[i].bid # None
              /\ (nrec' = nrec + 1 /\ RecKey(last') = aggregated[i].item_key
                    /\ RecBid(src, last') = None)
                   => aggregated'[i].bid = aggregated[i].bid]_vars

\* a priced key has just met a record of the same key with a null price
C3_Witness ==
  /\ src = "csfloat"
  /\ Len(window) = 2
  /\ window[1].price = JInt(250)
  /\ window[2].price = JNull
  /\ RecKey(window[1]) = RecKey(window[2])
  /\ last = window[2]
  /\ aggregated[1].price = Some(250)

\* the quantity a record contributes as the spec states it: the number in its
\* quantity field, zero when the field is absent or unparseable
StatedQty(r) == IF r.qty.kind \in {"int", "digits"} THEN r.qty.v ELSE 0

\* what a record adds to the quantity of its key, per source
CsfloatAdds(r) == StatedQty(r)
CsvAdds(r) == StatedQty(r)
JsonAdds(r) ==
  IF r.qty.kind \in {"absent", "null"} \/ (r.qty.kind = "int" /\ r.qty.v = 0)
  THEN 1 ELSE r.qty.v
AggWmAdds(r) == 1

\* the quantity of record r under the accounting named how
QtyUnder(how, r) ==
  CASE how = "stated" -> StatedQty(r)
    [] how = "csfloat" -> CsfloatAdds(r)
    [] how = "wm_csv" -> CsvAdds(r)
    [] how = "wm_json" -> JsonAdds(r)
    [] how = "aggwm" -> AggWmAdds(r)

\* the stored quantity of every key is the sum, over the records of the window
\* with that key, of their quantity under the accounting named how
QtyIsSum(how) ==
  \A i \in 1..Len(aggregated) :
    aggregated[i].qty =
      SumSeq([j \in 1..Len(window) |->
                IF RecKey(window[j]) = aggregated[i].item_key
                THEN QtyUnder(how, window[j]) ELSE 0])

\* the record read last has a name and a price the source accepts
LastIsPriced ==
  /\ nrec > 0
  /\ RecAsk(src, last) # None
  /\ parse_market_hash_name(last.name).base # <<>>

LastIsMerged == history # <<>> /\ history[Len(history)] = last

\* C4 as stated: the stored quantity of a key is the sum of the quantities of
\* the records merged under it, a record with an absent or unparseable quantity
\* counting zero and being merged all the same (aggregate_csfloat,
\* aggregate_whitemarket, CSV and JSON branch of run_whitemarket_ingest).
C4_AsStated ==
  src \in {"csfloat", "aggwm", "wm_csv", "wm_json"} =>
    /\ QtyIsSum("stated")
    /\ (LastIsPriced /\ last.qty.kind \in {"absent", "badstr"}) => LastIsMerged

\* C4 (amended): the stored quantity of a key is the sum of what the records
\* merged under it add. In aggregate_csfloat and in the CSV branch of
\* run_whitemarket_ingest a record adds its quantity, zero when the field is
\* absent or unparseable, and is merged all the same. In the JSON branch an
\* absent, null or zero quantity adds one and a record with an unparseable
\* quantity is skipped. aggregate_whitemarket adds one per record.
C4_QuantitySum ==
  /\ src = "csfloat" =>
       /\ QtyIsSum("csfloat")
       /\ nrec > 0 => LastIsMerged
  /\ src = "wm_csv" =>
       /\ QtyIsSum("wm_csv")
       /\ LastIsPriced => LastIsMerged
  /\ src = "wm_json" =>
       /\ QtyIsSum("wm_json")
       /\ LastIsPriced => (LastIsMerged <=> last.qty.kind # "badstr")
  /\ src = "aggwm" => QtyIsSum("aggwm")

\* the JSON branch has merged a record without quantity and one with quantity 2
C4_Witness ==
  /\ src = "wm_json"
  /\ Len(window) = 2
  /\ Len(aggregated) = 1
  /\ window[1].qty = Absent
  /\ window[2].qty = JInt(2)
  /\ aggregated[1].qty = 3

RunSources == {"csfloat", "buff163", "wm_csv", "wm_json"}

\* C5: when the upsert of a chunk fails, no later chunk is submitted and the
\* failure reaches the caller of the run: a failed upsert call is the last call
\* of the run, and a run that has ended after one has ended by raising.
C5_FailureStopsRun ==
  src \in RunSources =>
    \A i \in 1..Len(calls) :
      ~calls[i].ok => (i = Len(calls) /\ (pc = "done" => outcome = "raised"))

\* the rows of the chunks whose upsert call succeeded
RowsApplied == SumSeq([i \in 1..Len(calls) |-> IF calls[i].ok THEN Len(calls[i].rows) ELSE 0])

\* C6: the count a run reports when it ends equals the number of rows in the
\* chunks whose upsert call succeeded during the run.
C6_CountIsRowsApplied ==
  (src \in RunSources /\ pc = "done" /\ outcome = "returned") => ret = RowsApplied

\* C7: at the start of processing every raw record the dict of
\* run_whitemarket_ingest holds fewer than batch_size keys.
C7_TableBelowBound ==
  (src \in WmSources /\ pc = "ingest") => Len(aggregated) < batch_size

\* price and quantity of key k aggregated over the raw records part
PartAsk(part, k) ==
  MinOpt({Val(WmParsed(src = "wm_csv", part[j])).price : j \in WithKey(part, k)})
PartQty(part, k) ==
  SumSeq([j \in 1..Len(part) |->
            IF RecKey(part[j]) = k THEN Val(WmParsed(src = "wm_csv", part[j])).qty ELSE 0])

CallsWith(k) == {i \in 1..Len(calls) : HasKey(calls[i].rows, k)}
AppliedWith(k) == {i \in CallsWith(k) : calls[i].ok}
EmittedKeys == UNION {Keys(calls[i].rows) : i \in 1..Len(calls)}

\* every emitted row carries the price and quantity aggregated over the
\* partition it was emitted from
RowsArePartitionLocal ==
  \A i \in 1..Len(calls) : \A n \in 1..Len(calls[i].rows) :
    LET row == calls[i].rows[n]
    IN /\ row.price = PartAsk(calls[i].part, row.item_key)
       /\ row.qty = PartQty(calls[i].part, row.item_key)

\* the key was emitted from more than one flush partition
InSeveralPartitions(k) == Cardinality({calls[i].part : i \in CallsWith(k)}) >= 2

\* C8 as stated: at the end of a run of run_whitemarket_ingest, for a key whose
\* records fell into different flush partitions, the value stored is the price
\* and quantity aggregated over the last partition that contained the key.
C8_AsStated ==
  (src \in WmSources /\ pc = "done") =>
    \A k \in {x \in EmittedKeys : InSeveralPartitions(x)} :
      LET i == SetMax(CallsWith(k))
      IN /\ k \in DOMAIN store
         /\ store[k].price = PartAsk(calls[i].part, k)
         /\ store[k].qty = PartQty(calls[i].part, k)

\* C8 (amended): each partition emits its own row for the key, and at the end
\* of the run the value stored for a key is the price and quantity aggregated
\* over the last partition containing the key whose upsert call succeeded (a
\* key none of whose upsert calls succeeded is not stored).
C8_LastAppliedPartition ==
  (src \in WmSources /\ pc = "done") =>
    /\ RowsArePartitionLocal
    /\ DOMAIN store = {k \in EmittedKeys : AppliedWith(k) # {}}
    /\ \A k \in DOMAIN store :
         LET i == SetMax(AppliedWith(k))
         IN /\ store[k].price = PartAsk(calls[i].part, k)
            /\ store[k].qty = PartQty(calls[i].part, k)

\* a key stored from two partitions: the stored price is above the least price
\* of the run and the stored quantity below the sum of the run
C8_Witness ==
  /\ src = "wm_csv"
  /\ pc = "done"
  /\ \E k \in DOMAIN store :
       /\ InSeveralPartitions(k)
       /\ Cardinality(AppliedWith(k)) = 2
       /\ Val(store[k].price) > Val(PartAsk(history, k))
       /\ store[k].qty < PartQty(history, k)

AllRows ==
  {aggregated[i] : i \in 1..Len(aggregated)}
    \cup UNION {{calls[i].rows[n] : n \in 1..Len(calls[i].rows)} : i \in 1..Len(calls)}

\* C9: all canonical records created during one run carry the same capture
\* timestamp.
C9_OneTimestamp ==
  \A r1 \in AllRows : \A r2 \in AllRows : r1.fetched_at = r2.fetched_at

RECURSIVE Concat(_)
Concat(chunks) == IF chunks = <<>> THEN <<>> ELSE Head(chunks) \o Concat(Tail(chunks))

Ceil(n, d) == (n + d - 1) \div d

\* C10: the chunks of chunked(rows, size) concatenate to rows, each is
\* non-empty and no longer than size, each but the last has exactly size
\* elements; upsert_market_rows makes one upsert call per chunk, in order,
\* ceil(len(rows)/size) calls when none fails and none after one that fails.
C10_Chunked ==
  /\ pc \in {"chunked", "upserted"} =>
       /\ Concat(chunksOut) = rowsIn
       /\ \A i \in 1..Len(chunksOut) :
            /\ Len(chunksOut[i]) >= 1
            /\ Len(chunksOut[i]) <= sizeIn
            /\ i < Len(chunksOut) => Len(chunksOut[i]) = sizeIn
  /\ pc = "upserted" =>
       /\ Len(upsertCalls) <= Len(chunksOut)
       /\ \A i \in 1..Len(upsertCalls) :
            /\ upsertCalls[i].rows = chunksOut[i]
            /\ ~upsertCalls[i].ok => i = Len(upsertCalls)
       /\ outcome = "returned" =>
            /\ Len(upsertCalls) = Ceil(Len(rowsIn), sizeIn)
            /\ \A i \in 1..Len(upsertCalls) : upsertCalls[i].ok
       /\ outcome = "raised" => ~upsertCalls[Len(upsertCalls)].ok

\* three rows in chunks of two: two calls, the last chunk short
C10_Witness ==
  /\ pc = "upserted"
  /\ outcome = "returned"
  /\ Len(rowsIn) = 3
  /\ sizeIn = 2
  /\ Len(upsertCalls) = 2
  /\ Len(chunksOut[2]) = 1


\* ------------------------------------------------------ PrependStream alone
\* open_source_stream reads the first 4 bytes of the response as the head
HeadLen == 4

Bytes == {"a", "b"}
ByteStrings == UNION {[1..n -> Bytes] : n \in 0..MaxBytes}

Least(a, b) == IF a <= b THEN a ELSE b
Take(s, n) == SubSeq(s, 1, Least(n, Len(s)))
Drop(s, n) == SubSeq(s, Least(n, Len(s)) + 1, Len(s))

\* PrependStream(head, base) as open_source_stream builds it over a source of
\* sData: head is what resp.raw.read(4) gave, base the rest of the response
InitStream ==
  /\ PipeIdle("stream")
  /\ ChunkIdle
  /\ sData \in ByteStrings
  /\ sBuf = Take(sData, HeadLen)
  /\ sBase = Drop(sData, HeadLen)
  /\ sOut = <<>>
  /\ sN = 0
  /\ sRet = <<>>
  /\ OpenIdle
  /\ KeyIdle
  /\ FetchIdle
  /\ PriceIdle
  /\ MainIdle

\* the sizes base.read(want) may return: nothing at the end of the source,
\* otherwise between one byte and what was asked for
BaseReads(base, want) == IF base = <<>> THEN {0} ELSE 1..Least(want, Len(base))

\* PrependStream.read(n)
PrependStreamRead ==
  /\ src = "stream"
  /\ \E n \in {-1} \cup 1..MaxRead :
       LET b == IF n = -1 THEN sBuf ELSE Take(sBuf, n)
           left == IF n = -1 THEN <<>> ELSE Drop(sBuf, n)
       IN /\ sN' = n
          /\ sBuf' = left
          /\ IF n = -1 \/ Len(b) = n
             THEN /\ sRet' = b
                  /\ sBase' = sBase
             ELSE \E k \in BaseReads(sBase, n - Len(b)) :
                    /\ sRet' = b \o Take(sBase, k)
                    /\ sBase' = Drop(sBase, k)
          /\ sOut' = sOut \o sRet'
  /\ UNCHANGED sData
  /\ UNCHANGED <<pipeVars, chunkVars, openVars, keyVars, fetchVars, priceVars, mainVars>>

NextStream == PrependStreamRead

SpecStream == InitStream /\ [][NextStream]_vars

\* C11: PrependStream(head, base) is byte-transparent under every sequence of
\* read(n) calls with n > 0 or n = -1: the bytes returned so far are a prefix
\* of head followed by base, a read returns the empty string only when head and
\* base are both exhausted, and read(-1) returns all that is left of both.
C11_ByteTransparent ==
  src = "stream" =>
    /\ sOut = Take(sData, Len(sOut))
    /\ (sN # 0 /\ sRet = <<>>) => (sBuf = <<>> /\ sBase = <<>>)
    /\ sN = -1 => (sBuf = <<>> /\ sBase = <<>> /\ sOut = sData)


\* ------------------------------------- whitemarket open_source_stream alone
\* how one attempt (HEAD request, GET request, first read) can end
AttemptFaults == {"timeout", "http", "other"}
AttemptOutcomes == {"ok"} \cup AttemptFaults

\* 320-336: time.sleep(10) after a Timeout, time.sleep(5) after any other error
Backoff(fault) == IF fault = "timeout" THEN 10 ELSE 5

\* the last attempt is taken to be the one before the last
LastAttempt_one_early(attempt, retry_count) == attempt >= retry_count - 2

\* 322, 328, 334: if attempt == retry_count - 1: raise
LastAttempt(attempt, retry_count) == attempt = retry_count - 1

InitOpen ==
  /\ PipeIdle("open")
  /\ ChunkIdle
  /\ StreamIdle
  /\ KeyIdle
  /\ FetchIdle
  /\ PriceIdle
  /\ MainIdle
  /\ oRetry \in 0..MaxRetry
  /\ oLog = <<>>
  /\ oWaits = <<>>
  /\ oResult = "trying"

\* 287-336: one iteration of `for attempt in range(retry_count)`
OpenAttempt ==
  /\ src = "open"
  /\ oResult = "trying"
  /\ Len(oLog) < oRetry
  /\ \E o \in AttemptOutcomes :
       /\ oLog' = Append(oLog, o)
       /\ IF o = "ok"
          THEN /\ oResult' = "stream"
               /\ oWaits' = oWaits
          ELSE IF LastAttempt(Len(oLog), oRetry)
               THEN /\ oResult' = "raised"
                    /\ oWaits' = oWaits
               ELSE /\ oResult' = "trying"
                    /\ oWaits' = Append(oWaits, Backoff(o))
  /\ UNCHANGED oRetry
  /\ UNCHANGED <<pipeVars, chunkVars, streamVars, keyVars, fetchVars, priceVars, mainVars>>

\* 338: the loop has ended without a return: raise RuntimeError
OpenExhausted ==
  /\ src = "open"
  /\ oResult = "trying"
  /\ Len(oLog) >= oRetry
  /\ oResult' = "raised"
  /\ UNCHANGED <<oRetry, oLog, oWaits>>
  /\ UNCHANGED <<pipeVars, chunkVars, streamVars, keyVars, fetchVars, priceVars, mainVars>>

NextOpen ==
  \/ OpenAttempt
  \/ OpenExhausted

SpecOpen == InitOpen /\ [][NextOpen]_vars

Failed(log) == {i \in 1..Len(log) : log[i] # "ok"}

\* C15: open_source_stream(url, retry_count) with retry_count >= 1 makes at
\* most retry_count attempts; it returns the stream of the first attempt that
\* succeeds and makes no attempt after it; it has waited once after every
\* failed attempt that another attempt followed; it raises exactly when all
\* retry_count attempts have failed.
C15_BoundedRetry ==
  (src = "open" /\ oRetry >= 1) =>
    /\ Len(oLog) <= oRetry
    /\ \A i \in 1..Len(oLog) : oLog[i] = "ok" => (i = Len(oLog) /\ oResult = "stream")
    /\ oResult = "stream" => (oLog # <<>> /\ oLog[Len(oLog)] = "ok")
    /\ oResult = "raised" => (Len(oLog) = oRetry /\ Failed(oLog) = 1..oRetry)
    /\ (Len(oLog) = oRetry /\ Failed(oLog) = 1..oRetry) => oResult = "raised"
    /\ Len(oWaits) = IF oResult = "raised" THEN Len(oLog) - 1 ELSE Cardinality(Failed(oLog))
    /\ \A i \in 1..Len(oWaits) : oWaits[i] = Backoff(oLog[i]) /\ oWaits[i] > 0

\* the third of three attempts succeeds, after a timeout and an HTTP error
C15_Witness ==
  /\ src = "open"
  /\ oRetry = 3
  /\ oLog = <<"timeout", "http", "ok">>
  /\ oWaits = <<10, 5>>
  /\ oResult = "stream"


\* ------------------------------- parse_market_hash_name and build_item_key alone
\* raw names: plain, with markers, with one or two condition suffixes, made
\* of a condition suffix alone, and with the text of a key component after a "|"
NameCond == <<"AK-47 | Redline", "(Factory New)">>
NamePipeCond == <<"AK-47 | Redline", "|", "Factory New">>
NameTwoConds == <<"AK-47 | Redline", "(Factory New)", "(Minimal Wear)">>
NameOnlyCond == <<"(Factory New)">>
NameCondText == <<"Factory New">>
NameStatTrak == <<TokStatTrak, "AK-47 | Redline">>
NameSouvenirCond == <<TokSouvenir, "AWP | Asiimov", "(Minimal Wear)">>

RawNames ==
  {NameA, NameB, NameC, NameD, NameE, NameCond, NamePipeCond, NameTwoConds,
   NameOnlyCond, NameCondText, NameStatTrak, NameSouvenirCond}

Fetchers == {"csfloat", "buff163", "whitemarket"}

\* the identity a fetcher derives from a raw name: the result of
\* parse_market_hash_name and the phase (detect_phase in buff163, None elsewhere)
IdentityOf(fetcher, name) ==
  LET p == parse_market_hash_name(name)
  IN [base |-> p.base, stattrak |-> p.stattrak, souvenir |-> p.souvenir,
      condition |-> p.condition,
      phase |-> IF fetcher = "buff163" THEN detect_phase(name) ELSE None]

KeyOf(id) == build_item_key(id.base, id.stattrak, id.souvenir, id.condition, id.phase)

InitKey ==
  /\ PipeIdle("key")
  /\ ChunkIdle
  /\ StreamIdle
  /\ OpenIdle
  /\ FetchIdle
  /\ PriceIdle
  /\ MainIdle
  /\ kFetcher \in Fetchers
  /\ kNames \in RawNames \X RawNames
  /\ kIds = <<>>
  /\ kAgain = <<>>
  /\ kKeys = <<>>

\* parse_market_hash_name (and detect_phase) on both names, and
\* parse_market_hash_name again on the base names returned
ParseNames ==
  /\ src = "key"
  /\ kIds = <<>>
  /\ kIds' = [i \in 1..2 |-> IdentityOf(kFetcher, kNames[i])]
  /\ kAgain' = [i \in 1..2 |-> parse_market_hash_name(kIds'[i].base)]
  /\ UNCHANGED <<kFetcher, kNames, kKeys>>
  /\ UNCHANGED <<pipeVars, chunkVars, streamVars, openVars, fetchVars, priceVars, mainVars>>

\* build_item_key on both identities
BuildKeys ==
  /\ src = "key"
  /\ kIds # <<>>
  /\ kKeys = <<>>
  /\ kKeys' = [i \in 1..2 |-> KeyOf(kIds[i])]
  /\ UNCHANGED <<kFetcher, kNames, kIds, kAgain>>
  /\ UNCHANGED <<pipeVars, chunkVars, streamVars, openVars, fetchVars, priceVars, mainVars>>

NextKey ==
  \/ ParseNames
  \/ BuildKeys

SpecKey == InitKey /\ [][NextKey]_vars

\* C19: build_item_key is an injective function of the identity (base name,
\* StatTrak flag, Souvenir flag, condition, phase): the identities that
\* parse_market_hash_name and detect_phase give two raw names have equal keys
\* exactly when they are equal.
C19_KeyInjective ==
  (src = "key" /\ kKeys # <<>>) => (kKeys[1] = kKeys[2] <=> kIds[1] = kIds[2])

\* C20: condition-suffix stripping is idempotent: parse_market_hash_name on
\* the base name it returned detects no condition and returns that base name.
C20_StripIdempotent ==
  (src = "key" /\ kIds # <<>>) =>
    \A i \in 1..2 : kAgain[i].condition = None /\ kAgain[i].base = kIds[i].base


\* a run or aggregator has ended by raising although every upsert call it
\* made succeeded
RaisedWithoutUpsertFailure ==
  /\ pc = "done"
  /\ outcome = "raised"
  /\ \A i \in 1..Len(calls) : calls[i].ok

\* C17: a record-level fault never ends the run: whatever the records read
\* (unparseable name or price, missing field, field of an unexpected type such
\* as a non-mapping under starting_at), the aggregator does not raise on a
\* record and goes on to the later records.
C17_RecordFaultTolerated ==
  src \in Sources => ~RaisedWithoutUpsertFailure

\* ------------------------------------------------ fetching and extraction
\* The run of one source from its first request to its return or raise: the
\* fetcher is a generator, so each element it reads is followed by the step
\* of the consumer on that element. Every upsert succeeds here.

\* largest number of elements in a payload
MaxElems == 2
\* largest number of requests that fail or abort during one run
MaxFaults == 3
\* whitemarket 283: the default of retry_count, which every caller uses
DefaultRetryCount == 3

FetchSources == {"csfloat", "buff163", "wm_csv", "wm_json"}

\* the extraction strategies of each fetcher, in the order of its code
Strategies(source) ==
  CASE source = "wm_json" -> <<"direct", "item", "products.item", "data.item", "ndjson">>
    [] source = "csfloat" -> <<"item", "ndjson">>
    [] source = "buff163" -> <<"kvitems">>
    [] OTHER -> <<"csv">>

IjsonRoots == {"item", "products.item", "data.item"}

\* the strategy in progress
Strategy == fTried[Len(fTried)]

\* what a source can serve. shape: a JSON array, an object holding the array
\* under "products", under "data" or under a key no strategy knows ("other"),
\* one JSON value per line ("ndjson"), the name -> entry object of buff163
\* ("mapping"), or the prices CSV. elems: the complete elements, "A" and "B"
\* records and "x" a value that is not an object. cut: the text is malformed
\* or ends after the last complete element (inside an intact gzip container
\* when gzip). perline: an array that is written with one element on each
\* line, "[", "{...},", "{...}", "]": the line of the last element carries no
\* comma and is a JSON value of its own, unless the text is cut before it
\* ends. In any other layout no line of a payload that is not "ndjson" is an
\* object.
Shapes(source) ==
  CASE source = "buff163" -> {"mapping"}
    [] source = "wm_csv" -> {"csv"}
    [] OTHER -> {"array", "products", "data", "other", "ndjson"}

Elems(source) == IF source = "wm_csv" THEN {"A", "B"} ELSE {"A", "B", "x"}

Payloads(source) ==
  {p \in [shape : Shapes(source),
          elems : UNION {[1..n -> Elems(source)] : n \in 0..MaxElems},
          cut : IF source = "wm_csv" THEN {FALSE} ELSE BOOLEAN,
          gzip : IF source = "wm_csv" THEN {FALSE} ELSE BOOLEAN,
          perline : BOOLEAN] :
     p.perline => p.shape \in {"array", "products", "data", "other"} /\ p.elems # <<>>}

\* the record an element stands for, as the consumer of the source reads it;
\* fetch_buff163 (123) replaces an entry that is not a mapping by {}
ElemRecord(source, e) ==
  LET name == IF e = "B" THEN NameB ELSE NameA
  IN CASE source = "csfloat" -> Raw(name, IF e = "B" THEN JInt(250) ELSE JNum(100),
                                    Absent, JInt(2), Absent)
       [] source = "buff163" ->
            IF e = "x" THEN Raw(name, JNull, Absent, Absent, JNull)
            ELSE Raw(name, JNum(100), Absent, Absent, IF e = "B" THEN JNum(90) ELSE JNull)
       [] source = "wm_csv" -> Raw(name, JStr(100), Absent, JDigits(2), Absent)
       [] OTHER -> Raw(name, JNum(100), Absent, JInt(2), Absent)

\* isinstance(obj, dict), and buff163's replacement of what is not
Yielded(source, e) == source = "buff163" \/ e # "x"

\* the positions in the payload of the elements a strategy finds, in order.
\* The line reader (csfloat 118-126, whitemarket 479-487) passes over a line
\* that json.loads rejects.
VisibleAt(strategy, p) ==
  LET all == [i \in 1..Len(p.elems) |-> i]
  IN CASE strategy = "direct" ->
            IF p.shape \in {"array", "products", "data", "ndjson"} THEN all ELSE <<>>
       [] strategy = "item" -> IF p.shape = "array" THEN all ELSE <<>>
       [] strategy = "products.item" -> IF p.shape = "products" THEN all ELSE <<>>
       [] strategy = "data.item" -> IF p.shape = "data" THEN all ELSE <<>>
       [] strategy = "ndjson" ->
            IF p.shape = "ndjson" THEN all
            ELSE IF p.perline /\ ~p.cut THEN <<Len(p.elems)>>
            ELSE <<>>
       [] OTHER -> all

\* the elements a strategy finds in a payload, in order
Visible(strategy, p) ==
  [i \in 1..Len(VisibleAt(strategy, p)) |-> p.elems[VisibleAt(strategy, p)[i]]]

\* whitemarket 412-421: json.loads of the whole content raises on a malformed
\* text and on more than one value, and empty content raises ValueError
DirectRaises(p) == p.cut \/ (p.shape = "ndjson" /\ Len(p.elems) # 1)

\* ijson raises at the end of what it could parse of a malformed text, and
\* at the second top-level value
ParserRaises(strategy, p) ==
  /\ strategy \in IjsonRoots \cup {"kvitems"}
  /\ p.cut \/ (p.shape = "ndjson" /\ Len(p.elems) >= 2)

\* the strategies whose exceptions the fetcher catches before it goes on to
\* the next one: csfloat 110-116, whitemarket 392-448 and 456-476
Handled(source, strategy) ==
  \/ source = "csfloat" /\ strategy = "item"
  \/ source = "wm_json" /\ strategy \in IjsonRoots \cup {"direct"}

\* the strategies that open their stream with whitemarket's open_source_stream
Retried(source, strategy) == source = "wm_json" /\ strategy # "direct"

restVars == <<chunkVars, streamVars, openVars, keyVars, priceVars, mainVars>>

InitFetch ==
  /\ src \in FetchSources
  /\ pc = "ingest"
  /\ aggregated = <<>>
  /\ now = 0
  /\ run_now = 0
  /\ nrec = 0
  /\ total_processed = 0
  /\ store = <<>>
  /\ calls = <<>>
  /\ outcome = "running"
  /\ ret = 0
  /\ window = <<>>
  /\ history = <<>>
  /\ last = <<>>
  /\ ChunkIdle
  /\ StreamIdle
  /\ OpenIdle
  /\ KeyIdle
  /\ PriceIdle
  /\ MainIdle
  /\ fPayload \in Payloads(src)
  /\ fFaults = 0
  /\ fTried = <<Strategies(src)[1]>>
  /\ fConn = "closed"
  /\ fPos = 0
  /\ fGot = FALSE
  /\ fAttempt = 0
  /\ fOpens = <<>>
  /\ fYield = <<>>
  /\ fAborted = {}

\* how a request can end: "fault" fails before a stream is returned (timeout,
\* error status), "abort" returns a stream that breaks while it is read
RequestOutcomes == {"ok"} \cup (IF fFaults < MaxFaults THEN {"fault", "abort"} ELSE {})

Request(o) ==
  /\ fOpens' = Append(fOpens, [strategy |-> Strategy, outcome |-> o])
  /\ fFaults' = IF o = "ok" THEN fFaults ELSE fFaults + 1

\* the request does not give the strategy a stream: it failed, or (whitemarket
\* 399-421, which reads and parses the whole content at once) the content
\* broke off or does not parse
OpenFailed(o) ==
  \/ o = "fault"
  \/ Strategy = "direct" /\ (o = "abort" \/ DirectRaises(fPayload))

\* the fetcher leaves the strategy in progress for the next one of its list
NextStrategy ==
  /\ fTried' = Append(fTried, Strategies(src)[Len(fTried) + 1])
  /\ fConn' = "closed"
  /\ fPos' = 0
  /\ fGot' = FALSE
  /\ fAttempt' = 0
  /\ UNCHANGED pipeVars

\* an exception leaves the generator. run_csfloat_ingest and run_buff163_ingest
\* have no handler: it leaves the run, with the dict of the aggregator.
\* run_whitemarket_ingest 746-748 catches it and returns total_processed; the
\* final flush 724-741 is skipped.
RunFails ==
  /\ pc = "ingest"
  /\ pc' = "done"
  /\ aggregated' = <<>>
  /\ window' = <<>>
  /\ IF src \in WmSources
     THEN outcome' = "returned" /\ ret' = total_processed
     ELSE outcome' = "raised" /\ UNCHANGED ret
  /\ UNCHANGED <<src, now, run_now, nrec, total_processed, store, calls, history, last>>

\* the generator is exhausted and the run goes to its end
RunEnds == IF src \in WmSources THEN WmReturn(0) ELSE RunReturn(0)

\* the step of the consumer on a yielded element
Consume(e) ==
  LET r == ElemRecord(src, e)
  IN CASE src = "csfloat" -> Aggregate(r, CsfloatStep(aggregated, r, run_now))
       [] src = "buff163" -> Aggregate(r, Buff163Step(aggregated, r, run_now))
       [] OTHER -> WmRecord(r, now, 0)

\* a request gives the strategy in progress its stream
FetchOpened ==
  /\ pc = "ingest"
  /\ fConn = "closed"
  /\ \E o \in RequestOutcomes :
       /\ ~OpenFailed(o)
       /\ Request(o)
       /\ fConn' = o
  /\ fPos' = 0
  /\ fGot' = FALSE
  /\ fAttempt' = 0
  /\ UNCHANGED <<fPayload, fTried, fYield, fAborted>>
  /\ UNCHANGED pipeVars
  /\ UNCHANGED restVars

\* whitemarket 320-336: an attempt of open_source_stream that is not the last
\* one fails; the function sleeps and goes round its loop
FetchOpenRetried ==
  /\ pc = "ingest"
  /\ fConn = "closed"
  /\ Retried(src, Strategy)
  /\ ~LastAttempt(fAttempt, DefaultRetryCount)
  /\ \E o \in RequestOutcomes :
       /\ OpenFailed(o)
       /\ Request(o)
  /\ fAttempt' = fAttempt + 1
  /\ UNCHANGED <<fPayload, fTried, fConn, fPos, fGot, fYield, fAborted>>
  /\ UNCHANGED pipeVars
  /\ UNCHANGED restVars

\* the strategy gets no stream and the fetcher catches the exception
FetchOpenCaught ==
  /\ pc = "ingest"
  /\ fConn = "closed"
  /\ Retried(src, Strategy) => LastAttempt(fAttempt, DefaultRetryCount)
  /\ Handled(src, Strategy)
  /\ \E o \in RequestOutcomes :
       /\ OpenFailed(o)
       /\ Request(o)
  /\ NextStrategy
  /\ UNCHANGED <<fPayload, fYield, fAborted>>
  /\ UNCHANGED restVars

\* the strategy gets no stream and nothing in the fetcher catches the exception
FetchOpenFails ==
  /\ pc = "ingest"
  /\ fConn = "closed"
  /\ Retried(src, Strategy) => LastAttempt(fAttempt, DefaultRetryCount)
  /\ ~Handled(src, Strategy)
  /\ \E o \in RequestOutcomes :
       /\ OpenFailed(o)
       /\ Request(o)
  /\ RunFails
  /\ UNCHANGED <<fPayload, fTried, fConn, fPos, fGot, fAttempt, fYield, fAborted>>
  /\ UNCHANGED restVars

\* csfloat 119 iterates the stream and whitemarket 480 wraps it in a
\* TextIOWrapper: a GzipFile allows both, a PrependStream neither
Iterable == Strategy # "ndjson" \/ fPayload.gzip

Seen == Visible(Strategy, fPayload)

\* why the next read of the open stream raises, "none" if it does not have to
ReadFault ==
  IF ~Iterable THEN "type"
  ELSE IF fConn = "abort" THEN "abort"
  ELSE IF fPos = Len(Seen) /\ ParserRaises(Strategy, fPayload) THEN "malformed"
  ELSE "none"

\* the strategy reads its next element and yields it if it is a record; the
\* consumer takes its step on it
FetchElement ==
  /\ pc = "ingest"
  /\ fConn # "closed"
  /\ Iterable
  /\ fPos < Len(Seen)
  /\ fPos' = fPos + 1
  /\ fGot' = TRUE
  /\ LET e == Seen[fPos + 1]
     IN IF Yielded(src, e)
        THEN /\ fYield' = Append(fYield, [strategy |-> Strategy, elem |-> e,
                                          pos |-> VisibleAt(Strategy, fPayload)[fPos + 1]])
             /\ Consume(e)
        ELSE /\ UNCHANGED fYield
             /\ UNCHANGED pipeVars
  /\ UNCHANGED <<fPayload, fFaults, fTried, fConn, fAttempt, fOpens, fAborted>>
  /\ UNCHANGED restVars

\* a read raises and the fetcher catches the exception
FetchReadCaught ==
  /\ pc = "ingest"
  /\ fConn # "closed"
  /\ ReadFault # "none"
  /\ Handled(src, Strategy)
  /\ fAborted' = IF ReadFault = "abort" THEN fAborted \cup {Strategy} ELSE fAborted
  /\ NextStrategy
  /\ UNCHANGED <<fPayload, fFaults, fOpens, fYield>>
  /\ UNCHANGED restVars

\* a read raises and nothing in the fetcher catches the exception
FetchReadFails ==
  /\ pc = "ingest"
  /\ fConn # "closed"
  /\ ReadFault # "none"
  /\ ~Handled(src, Strategy)
  /\ fAborted' = IF ReadFault = "abort" THEN fAborted \cup {Strategy} ELSE fAborted
  /\ RunFails
  /\ UNCHANGED <<fPayload, fFaults, fTried, fConn, fPos, fGot, fAttempt, fOpens, fYield>>
  /\ UNCHANGED restVars

\* whitemarket 467-469: a streaming root ends without any element, and the
\* fetcher goes on to the next strategy
FetchNothing ==
  /\ pc = "ingest"
  /\ fConn # "closed"
  /\ ReadFault = "none"
  /\ fPos = Len(Seen)
  /\ src = "wm_json"
  /\ Strategy \in IjsonRoots
  /\ ~fGot
  /\ NextStrategy
  /\ UNCHANGED <<fPayload, fFaults, fOpens, fYield, fAborted>>
  /\ UNCHANGED restVars

\* the strategy ends and the generator returns: the run goes to its end
FetchExhausted ==
  /\ pc = "ingest"
  /\ fConn # "closed"
  /\ ReadFault = "none"
  /\ fPos = Len(Seen)
  /\ (src = "wm_json" /\ Strategy \in IjsonRoots) => fGot
  /\ RunEnds
  /\ UNCHANGED fetchVars
  /\ UNCHANGED restVars

NextFetch ==
  \/ FetchOpened
  \/ FetchOpenRetried
  \/ FetchOpenCaught
  \/ FetchOpenFails
  \/ FetchElement
  \/ FetchReadCaught
  \/ FetchReadFails
  \/ FetchNothing
  \/ FetchExhausted

SpecFetch == InitFetch /\ [][NextFetch]_vars

\* the strategies of the run that yielded no record
Fruitless == {i \in 1..Len(fTried) : \A j \in 1..Len(fYield) : fYield[j].strategy # fTried[i]}

\* C12: fetch_whitemarket tries its extraction strategies in order; a strategy
\* that extracted no record is followed by the next strategy, so the search
\* ends at a strategy only if that one extracted a record or is the last of
\* the list; the records returned all come from one strategy.
C12_FirstProductiveStrategy ==
  (src = "wm_json" /\ fTried # <<>>) =>
    /\ \A i \in 1..Len(fTried) : fTried[i] = Strategies(src)[i]
    /\ pc = "done" =>
         \A i \in Fruitless : i < Len(fTried) \/ i = Len(Strategies(src))
    /\ \A i, j \in 1..Len(fYield) : fYield[i].strategy = fYield[j].strategy

\* C13: a run of csfloat or of the whitemarket JSON export in which no
\* strategy extracted a record ends in a failure the caller sees: it raises.
C13_ExhaustionIsFatal ==
  (src \in {"csfloat", "wm_json"} /\ fTried # <<>> /\ pc = "done" /\ fYield = <<>>) =>
    outcome = "raised"

\* C14: at the end of a run whose payload is malformed after its complete
\* elements and in which no request failed or aborted, every record that an
\* ijson traversal yielded is in the aggregation dict or has been upserted
\* from it.
C14_YieldedElementsKept ==
  (src \in {"csfloat", "wm_json"} /\ pc = "done" /\ fPayload.cut /\ fFaults = 0) =>
    \A i \in 1..Len(fYield) :
      fYield[i].strategy \in IjsonRoots =>
        RecKey(ElemRecord(src, fYield[i].elem)) \in Keys(aggregated) \cup DOMAIN store

\* C16: for each of the four sources, a run whose first request failed with a
\* transient fault has made a second request.
C16_FirstOpenFaultRetried ==
  (src \in FetchSources /\ fTried # <<>> /\ pc = "done" /\ fOpens # <<>>
     /\ fOpens[1].outcome = "fault") =>
    Len(fOpens) >= 2

\* the keys of the records yielded by the strategies whose stream aborted
AbortedKeys ==
  {RecKey(ElemRecord(src, fYield[i].elem)) :
     i \in {j \in 1..Len(fYield) : fYield[j].strategy \in fAborted}}

\* C18: once a stream has aborted while its records were read, no record
\* read from it is in the aggregation dict or in the table, and the run ends
\* by raising.
C18_AbortedFetchDiscarded ==
  fAborted # {} =>
    /\ AbortedKeys \cap Keys(aggregated) = {}
    /\ AbortedKeys \cap DOMAIN store = {}
    /\ pc = "done" => outcome = "raised"

\* C28: in a run of csfloat or of the whitemarket JSON export, no element of
\* the payload is yielded to the consumer twice, also when a strategy yielded
\* records before it failed and a later strategy reads the payload again.
C28_DeliveredAtMostOnce ==
  (src \in {"csfloat", "wm_json"} /\ fTried # <<>>) =>
    \A i, j \in 1..Len(fYield) : fYield[i].pos = fYield[j].pos => i = j

\* ------------------------------------------------------- probing a price
\* _to_usd, _normalize_price and the probe loop of aggregate_whitemarket on
\* one product alone.

\* candidate fields a product carries at once
MaxPresent == 2

\* the values tried in a candidate field: null, text that does not parse,
\* the integers 0, 5 and 5000, the numbers 12.00 and -1.00, and the texts
\* "12.50", "100" and "5000"
PriceValues ==
  {JNull, JBad, JInt(0), JInt(5), JInt(5000), JNum(1200), JNum(-100), JStr(1250),
   JDigits(100), JDigits(5000)}

PriceProducts ==
  {c \in [CandidateFields -> PriceValues \cup {Absent}] :
     Cardinality({f \in CandidateFields : c[f] # Absent}) <= MaxPresent}

InitPrice ==
  /\ PipeIdle("price")
  /\ ChunkIdle
  /\ StreamIdle
  /\ OpenIdle
  /\ KeyIdle
  /\ FetchIdle
  /\ MainIdle
  /\ pProduct \in PriceProducts
  /\ pDone = FALSE
  /\ pRun = None
  /\ pAgg = None
  /\ pUsd = [f \in CandidateFields |-> None]

\* the three functions applied to the product
ProbePrices ==
  /\ src = "price"
  /\ ~pDone
  /\ pDone' = TRUE
  /\ pRun' = NormalizePrice(pProduct)
  /\ pAgg' = ProbePrice(pProduct)
  /\ pUsd' = [f \in CandidateFields |-> to_usd(pProduct[f], EndsInCents(f))]
  /\ UNCHANGED pProduct
  /\ UNCHANGED <<pipeVars, chunkVars, streamVars, openVars, keyVars, fetchVars, mainVars>>

NextPrice == ProbePrices

SpecPrice == InitPrice /\ [][NextPrice]_vars

\* the value of the first field of an order whose candidate is valid and > 0
FirstPositive(c, order) ==
  LET hits == {i \in 1..Len(order) :
                 /\ Candidate(c, order[i]) # None
                 /\ Val(Candidate(c, order[i])) > 0}
  IN IF hits = {} THEN None ELSE Candidate(c, order[SetMin(hits)])

\* C21: the price of a record is the normalized value of the first candidate
\* field, in the probing order of the function, that is valid and strictly
\* positive, whatever the later candidates hold: in _normalize_price and in
\* the probe loop of aggregate_whitemarket.
C21_FirstValidCandidate ==
  (src = "price" /\ pDone) =>
    /\ pRun = FirstPositive(pProduct, RunPriceFields)
    /\ pAgg = FirstPositive(pProduct, AggPriceFields)

\* what the rules of to_usd give, taken in their order, for a raw value under
\* a field that is or is not marked as minor units
UsdByRule(v, cents_field) ==
  LET parsed == IF v.kind \in {"int", "digits"} THEN 100 * v.v ELSE v.v
  IN IF v.kind = "badstr" THEN None
     ELSE IF v.kind \in {"absent", "null"} THEN None
     ELSE IF cents_field THEN Some(parsed \div 100)
     ELSE IF v.kind = "int" /\ v.v >= 1000 THEN Some(parsed \div 100)
     ELSE Some(parsed)

\* C22: to_usd parses a text (unparseable when that fails), then divides by
\* 100 under a *_cents field, otherwise divides a bare integer >= 1000 by 100,
\* otherwise returns the value unchanged; "100" under a *_cents field is
\* 1.00, the integer 5000 under an unmarked field is 50.00 and "12.50" under
\* a plain field is 12.50.
C22_ToUsdRules ==
  (src = "price" /\ pDone) =>
    /\ \A f \in CandidateFields : pUsd[f] = UsdByRule(pProduct[f], EndsInCents(f))
    /\ pProduct["price_cents"] = JDigits(100) => pUsd["price_cents"] = Some(100)
    /\ pProduct["price"] = JInt(5000) => pUsd["price"] = Some(5000)
    /\ pProduct["price"] = JStr(1250) => pUsd["price"] = Some(1250)

C22_Witness ==
  /\ src = "price"
  /\ pDone
  /\ pProduct["price_cents"] = JDigits(100)
  /\ pProduct["price"] = JInt(5000)
  /\ pUsd["price_cents"] = Some(100)
  /\ pUsd["price"] = Some(5000)

\* C27: under a field without minor-unit marker, the text "5000" normalizes
\* to the same amount as the bare integer 5000.
C27_HeuristicOnParsedValue ==
  (src = "price" /\ pDone) =>
    \A f \in CandidateFields \ {"price_cents"} :
      pProduct[f] = JDigits(5000) => pUsd[f] = to_usd(JInt(5000), FALSE)

\* -------------------------------------------------- rows that are skipped
\* C23: in the CSV path of run_whitemarket_ingest a row whose price column
\* is not numeric changes neither the table nor what has been upserted or
\* counted, the run goes on reading rows after it, and the count the run
\* returns is the count of the rows flushed.
C23_BadPriceRowSkipped ==
  [][src = "wm_csv" =>
       /\ (nrec' = nrec + 1 /\ last'.price.kind = "badstr") =>
            /\ UNCHANGED <<aggregated, store, calls, total_processed>>
            /\ pc' = "ingest"
       /\ (pc = "ingest" /\ pc' = "done") => ret' = total_processed']_vars

C23_Witness ==
  /\ src = "wm_csv"
  /\ pc = "done"
  /\ nrec = 2
  /\ last.price = JBad
  /\ Len(history) = 1
  /\ Len(aggregated) = 1
  /\ Len(calls) = 1
  /\ ret = 1

\* C24: in the CSV path a row whose name, price or listing count is missing
\* or not numeric where a number is expected changes nothing in the table.
C24_IncompleteRowSkipped ==
  [][(src = "wm_csv" /\ nrec' = nrec + 1
        /\ \/ last'.name = <<>>
           \/ last'.price.kind \in {"absent", "null", "badstr"}
           \/ last'.qty.kind \in {"absent", "null", "badstr"}) =>
       UNCHANGED <<aggregated, store, calls>>]_vars

IsPrefix(a, b) == Len(a) <= Len(b) /\ SubSeq(b, 1, Len(a)) = a

\* C25: after an upsert call of a flush has failed, no later call of the run
\* submits a row of a key that the failed flush submitted, in its failed
\* chunk or in a chunk applied before it.
C25_NoPersistenceRetry ==
  src \in WmSources =>
    \A i, j \in 1..Len(calls) :
      (i < j /\ ~calls[i].ok /\ IsPrefix(calls[i].part, calls[j].part)) =>
        \A k \in 1..i :
          calls[k].part = calls[i].part =>
            Keys(calls[k].rows) \cap Keys(calls[j].rows) = {}

\* C26: in aggregate_csfloat, aggregate_buff163 and aggregate_whitemarket a
\* raw record whose price is missing or unparseable leaves the table as it
\* is: no record is created for it and no quantity is added.
C26_PricelessRecordSkipped ==
  [][(src \in AggSources /\ nrec' = nrec + 1 /\ pc' = "ingest"
        /\ RecAsk(src, last') = None /\ RecBid(src, last') = None) =>
       aggregated' = aggregated]_vars

\* C29: when run_whitemarket_ingest returns at the end of the record stream
\* and every upsert call of the run has succeeded, the key of every record
\* merged into the table has been submitted in some chunk, and the count
\* returned is the sum of the sizes of the partitions flushed.
C29_AllKeysSubmitted ==
  [][(src \in WmSources /\ pc = "ingest" /\ pc' = "done"
        /\ \A i \in 1..Len(calls') : calls'[i].ok) =>
       /\ \A i \in 1..Len(history') :
            \E j \in 1..Len(calls') : HasKey(calls'[j].rows, RecKey(history'[i]))
       /\ ret' = SumSeq([j \in 1..Len(calls') |-> Len(calls'[j].rows)])]_vars

C29_Witness ==
  /\ src \in WmSources
  /\ pc = "done"
  /\ Len(history) = 3
  /\ Len(calls) = 2
  /\ calls[1].ok
  /\ calls[2].ok
  /\ Len(calls[1].rows) = 2
  /\ Len(calls[2].rows) = 1
  /\ ret = 3

\* C30: no row whose item_key is empty is submitted to an upsert call, by
\* the run of any source.
C30_NoEmptyKeySubmitted ==
  src \in Sources =>
    \A i \in 1..Len(calls) : \A j \in 1..Len(calls[i].rows) : calls[i].rows[j].item_key # <<>>

\* ------------------------------------------ prices that are not positive
\* The four runs on records whose prices are positive, zero or negative:
\* the record steps and the returns of the runs above, on other inputs.

\* largest number of records of a run
MaxSigned == 2

SignedSources == {"csfloat", "buff163", "wm_csv", "wm_json"}

\* one variant, with an asking price (and for buff163 a highest order) that
\* is 1.00, 0 or -1.00 as the source writes it
SignedRecords(source) ==
  CASE source = "csfloat" ->
         {Raw(NameA, p, Absent, JInt(2), Absent) : p \in {JNum(100), JNum(0), JInt(-100)}}
    [] source = "buff163" ->
         {Raw(NameA, p, Absent, Absent, b) : p \in {JNum(100), JNum(-100)},
                                             b \in {JNum(90), JInt(0)}}
    [] source = "wm_csv" ->
         {Raw(NameA, p, Absent, JDigits(2), Absent) : p \in {JStr(100), JStr(0), JStr(-100)}}
    [] OTHER ->
         {Raw(NameA, p, Absent, JInt(2), Absent) : p \in {JNum(100), JNum(0), JNum(-100)}}

InitSigned ==
  /\ src \in SignedSources
  /\ pc = "ingest"
  /\ aggregated = <<>>
  /\ now = 0
  /\ run_now = 0
  /\ nrec = 0
  /\ total_processed = 0
  /\ store = <<>>
  /\ calls = <<>>
  /\ outcome = "running"
  /\ ret = 0
  /\ window = <<>>
  /\ history = <<>>
  /\ last = <<>>
  /\ ChunkIdle
  /\ SideIdle

\* the run reads its next record: one iteration of the loop of the aggregator,
\* or of the record loop of run_whitemarket_ingest
IngestSigned ==
  /\ nrec < MaxSigned
  /\ \E r \in SignedRecords(src) :
       CASE src = "csfloat" -> Aggregate(r, CsfloatStep(aggregated, r, run_now))
         [] src = "buff163" -> Aggregate(r, Buff163Step(aggregated, r, run_now))
         [] OTHER -> \E t \in ClockReadings : \E failAt \in 0..MaxSigned :
                       WmRecord(r, t, failAt)
  /\ UNCHANGED otherVars

\* the stream has ended: the run upserts what its table holds and returns
ReturnSigned ==
  /\ \E failAt \in 0..MaxSigned :
       IF src \in WmSources THEN WmReturn(failAt) ELSE RunReturn(failAt)
  /\ UNCHANGED otherVars

NextSigned == IngestSigned \/ ReturnSigned

SpecSigned == InitSigned /\ [][NextSigned]_vars

\* C31: every price that is not null in a row submitted to the upsert, the
\* asking price and the highest order of buff163 alike, is strictly positive.
C31_SubmittedPricesPositive ==
  src \in SignedSources =>
    \A i \in 1..Len(calls) : \A j \in 1..Len(calls[i].rows) :
      /\ \A x \in calls[i].rows[j].price : x > 0
      /\ \A x \in calls[i].rows[j].bid : x > 0

\* ------------------------------------------------------------ the scheduler
\* scheduler_refresh.py: main() and refresh_sources(). Each call that main()
\* makes is two steps, its start and its end; how a call ends is an input.
\* The settings that get_sb() reads are those that get_supabase_client()
\* reads, so a run that got its client at line 70 gets it in the ingests too.

\* largest number of iterations of the loop of main()
MaxIterations == 2

Markets == {"whitemarket", "csfloat", "buff163"}

\* the calls of one iteration
Calls == {"clean", "whitemarket", "csfloat", "buff163", "liquidity"}

\* Following with the liquidity refresh ahead of the buff163 ingest
Following_liquidity_early(step) ==
  CASE step = "clean" -> "whitemarket"
    [] step = "whitemarket" -> "csfloat"
    [] step = "csfloat" -> "liquidity"
    [] step = "liquidity" -> "buff163"
    [] OTHER -> "once"

\* AfterRaise of a main() that goes on to its next statement
AfterRaise_goes_on(step) ==
  CASE step = "clean" -> "whitemarket"
    [] step = "csfloat" -> "buff163"
    [] step = "buff163" -> "liquidity"
    [] OTHER -> "once"

\* 71-77: the statement that follows a call that returned
Following(step) ==
  CASE step = "clean" -> "whitemarket"
    [] step = "whitemarket" -> "csfloat"
    [] step = "csfloat" -> "buff163"
    [] step = "buff163" -> "liquidity"
    [] OTHER -> "once"

\* 67-80 and 35-49 have no try: an exception that leaves a call leaves
\* refresh_sources() and main()
AfterRaise(step) == "raised"

\* whitemarket 746-748 returns the counter on any exception of its run;
\* run_csfloat_ingest and run_buff163_ingest have no handler
Caught(step) == step = "whitemarket"

\* the table after a call returned: the delete of 32 empties it, an ingest
\* has upserted every row of its source
TableAfterReturn(t, step) ==
  CASE step = "clean" -> [m \in Markets |-> "empty"]
    [] step \in Markets -> [t EXCEPT ![step] = "fresh"]
    [] OTHER -> t

\* the tables a call can leave when it fails: an ingest may have upserted
\* some of its rows, the delete may have been applied
TableAfterFailure(t, step) ==
  CASE step = "clean" -> {t, [m \in Markets |-> "empty"]}
    [] step \in Markets -> {t, [t EXCEPT ![step] = "partial"]}
    [] OTHER -> {t}

InitMain ==
  /\ PipeIdle("main")
  /\ ChunkIdle
  /\ StreamIdle
  /\ OpenIdle
  /\ KeyIdle
  /\ FetchIdle
  /\ PriceIdle
  /\ args \in [once : BOOLEAN, clean : BOOLEAN]
  /\ mainPc = "top"
  /\ running = FALSE
  /\ iteration = 0
  /\ steps = <<>>
  /\ sleeps = 0
  /\ table \in {[m \in Markets |-> v] : v \in {"stale", "empty"}}

mainFrame == <<pipeVars, chunkVars, streamVars, openVars, keyVars, fetchVars, priceVars>>

\* 67-71: an iteration starts and get_sb() returns the client or raises.
\* What earlier iterations wrote is stale now.
LoopTop ==
  /\ mainPc = "top"
  /\ iteration < MaxIterations
  /\ iteration' = iteration + 1
  /\ steps' = <<>>
  /\ table' = [m \in Markets |-> IF table[m] = "empty" THEN "empty" ELSE "stale"]
  /\ \E ok \in BOOLEAN :
       mainPc' = IF ~ok THEN "raised"
                 ELSE IF args.clean THEN "clean" ELSE "whitemarket"
  /\ UNCHANGED <<args, running, sleeps>>
  /\ UNCHANGED mainFrame

\* 72, 43, 45, 47, 74: the call at mainPc starts
CallStarts ==
  /\ mainPc \in Calls
  /\ ~running
  /\ running' = TRUE
  /\ steps' = Append(steps, [step |-> mainPc, ev |-> "start"])
  /\ UNCHANGED <<args, mainPc, iteration, sleeps, table>>
  /\ UNCHANGED mainFrame

\* the call returns after it did its work
CallReturns ==
  /\ mainPc \in Calls
  /\ running
  /\ running' = FALSE
  /\ steps' = Append(steps, [step |-> mainPc, ev |-> "return"])
  /\ table' = TableAfterReturn(table, mainPc)
  /\ mainPc' = Following(mainPc)
  /\ UNCHANGED <<args, iteration, sleeps>>
  /\ UNCHANGED mainFrame

\* the call fails: the ingest that catches its exceptions returns its count
\* ("critical"), any other call raises
CallFails ==
  /\ mainPc \in Calls
  /\ running
  /\ running' = FALSE
  /\ table' \in TableAfterFailure(table, mainPc)
  /\ IF Caught(mainPc)
     THEN /\ steps' = Append(steps, [step |-> mainPc, ev |-> "critical"])
          /\ mainPc' = Following(mainPc)
     ELSE /\ steps' = Append(steps, [step |-> mainPc, ev |-> "raise"])
          /\ mainPc' = AfterRaise(mainPc)
  /\ UNCHANGED <<args, iteration, sleeps>>
  /\ UNCHANGED mainFrame

\* 77-78: with --once the loop is left
CheckOnce ==
  /\ mainPc = "once"
  /\ mainPc' = IF args.once THEN "exit" ELSE "sleep"
  /\ UNCHANGED <<args, running, iteration, steps, sleeps, table>>
  /\ UNCHANGED mainFrame

\* 80: time.sleep(INTERVAL_SECONDS) returns and the loop goes round
Sleep ==
  /\ mainPc = "sleep"
  /\ sleeps' = sleeps + 1
  /\ mainPc' = "top"
  /\ UNCHANGED <<args, running, iteration, steps, table>>
  /\ UNCHANGED mainFrame

NextMain ==
  \/ LoopTop
  \/ CallStarts
  \/ CallReturns
  \/ CallFails
  \/ CheckOnce
  \/ Sleep

SpecMain == InitMain /\ [][NextMain]_vars

\* every call of main() ends, and the sleep returns
SpecMainFair == SpecMain /\ WF_vars(NextMain)

\* the call has ended and main() went on: it returned, or it is the
\* whitemarket ingest and returned its count after a critical error
EndedAt(i, step) == steps[i].step = step /\ steps[i].ev \in {"return", "critical"}

\* every start of the call b in this iteration comes after an end of a
EndsBefore(a, b) ==
  \A j \in 1..Len(steps) :
    (steps[j].step = b /\ steps[j].ev = "start") => \E i \in 1..(j - 1) : EndedAt(i, a)

StepOrder ==
  /\ args.clean => \A m \in Markets : EndsBefore("clean", m)
  /\ ~args.clean => \A j \in 1..Len(steps) : steps[j].step # "clean"
  /\ EndsBefore("whitemarket", "csfloat")
  /\ EndsBefore("csfloat", "buff163")
  /\ \A m \in Markets : EndsBefore(m, "liquidity")
  /\ \A i, j \in 1..Len(steps) :
       (steps[i].ev = "start" /\ steps[j] = steps[i]) => i = j

OnceRunsOnce ==
  args.once =>
    /\ iteration <= 1
    /\ sleeps = 0
    /\ mainPc = "exit" => iteration = 1

\* C32: in every iteration of the scheduler the table clean, when --clean is
\* set, has ended before an ingest starts, the ingests run in the order
\* whitemarket, csfloat, buff163, each after the one before it has ended, and
\* the liquidity refresh starts after the three have ended; with --once no
\* second iteration starts, nothing sleeps, and main() ends.
C32_StepOrder ==
  /\ [](mainPc # "idle" => StepOrder /\ OnceRunsOnce)
  /\ (mainPc # "idle" /\ args.once) ~> (mainPc \in {"exit", "raised"})

C32_Witness ==
  /\ args = [once |-> TRUE, clean |-> TRUE]
  /\ mainPc = "exit"
  /\ iteration = 1
  /\ Len(steps) = 10
  /\ steps[10] = [step |-> "liquidity", ev |-> "return"]

\* the sources that refresh_sources() ingests after the source m
Later(m) ==
  CASE m = "whitemarket" -> {"csfloat", "buff163"}
    [] m = "csfloat" -> {"buff163"}
    [] OTHER -> {}

RaiseEndsRun ==
  \A i \in 1..Len(steps) :
    (steps[i].ev = "raise" /\ steps[i].step \in {"csfloat", "buff163"}) =>
      /\ i = Len(steps)
      /\ mainPc = "raised"
      /\ ~running
      /\ \A j \in 1..Len(steps) : steps[j].step \notin Later(steps[i].step) \cup {"liquidity"}
      /\ args.clean =>
           /\ table[steps[i].step] \in {"empty", "partial"}
           /\ \A m \in Later(steps[i].step) : table[m] = "empty"

CriticalGoesOn ==
  \A i \in 1..Len(steps) :
    steps[i] = [step |-> "whitemarket", ev |-> "critical"] =>
      IF i = Len(steps)
      THEN mainPc = "csfloat" /\ ~running
      ELSE steps[i + 1] = [step |-> "csfloat", ev |-> "start"]

\* C33: when the csfloat or the buff163 ingest raises, no later source is
\* ingested and the liquidity refresh is not called in that iteration, main()
\* has ended with the exception, and from then on nothing sleeps, no
\* iteration starts and the table stays as it is: with --clean, empty for the
\* later sources and at most partly loaded for the one that raised. A
\* critical error of the whitemarket ingest is returned as its count, and the
\* csfloat ingest is what comes next.
C33_IngestFailure ==
  /\ [](mainPc # "idle" => RaiseEndsRun /\ CriticalGoesOn)
  /\ [][mainPc = "raised" => UNCHANGED <<mainPc, iteration, sleeps, steps, table>>]_vars

C33_Witness ==
  /\ args.clean
  /\ mainPc = "raised"
  /\ Len(steps) = 6
  /\ steps[4] = [step |-> "whitemarket", ev |-> "critical"]
  /\ steps[6] = [step |-> "csfloat", ev |-> "raise"]
  /\ table = [whitemarket |-> "partial", csfloat |-> "partial", buff163 |-> "empty"]

====
